---- MODULE Spec2Model ----
(***************************************************************************)
(* Estoque-BB (src/app_boss.py): the "Baixa por PDF" pipeline.             *)
(*                                                                         *)
(* A text is a sequence of one-character strings.  An accented letter is   *)
(* written as a name ("A_acute", "C_cedil", ...) and counts as ONE         *)
(* character of a text.                                                    *)
(***************************************************************************)
EXTENDS Integers, Sequences, FiniteSets, TLC

(***************************************************************************)
(* Characters                                                              *)
(***************************************************************************)
UpperSeq ==
  <<"A","B","C","D","E","F","G","H","I","J","K","L","M",
    "N","O","P","Q","R","S","T","U","V","W","X","Y","Z">>

LowerSeq ==
  <<"a","b","c","d","e","f","g","h","i","j","k","l","m",
    "n","o","p","q","r","s","t","u","v","w","x","y","z">>

\* the accented capitals the source's character classes list
AccUpperSeq ==
  <<"A_acute","A_grave","A_circ","A_tilde","E_acute","E_grave","E_circ",
    "I_acute","I_grave","I_circ","O_acute","O_grave","O_circ","O_tilde",
    "U_acute","U_grave","U_circ","C_cedil">>

AccLowerSeq ==
  <<"a_acute","a_grave","a_circ","a_tilde","e_acute","e_grave","e_circ",
    "i_acute","i_grave","i_circ","o_acute","o_grave","o_circ","o_tilde",
    "u_acute","u_grave","u_circ","c_cedil">>

DigitSeq == <<"0","1","2","3","4","5","6","7","8","9">>

Range(f) == { f[x] : x \in DOMAIN f }

AZ == Range(UpperSeq)

az == Range(LowerSeq)

ACC == Range(AccUpperSeq)

Digits == Range(DigitSeq)

\* \s of the regular expressions, str.strip()
White == {" ", "\t"}

\* every other character a text of the model may hold
Punct == {"-", "_", "/", ",", ".", ":", "(", ")"}

AnyChar == AZ \cup az \cup ACC \cup Range(AccLowerSeq) \cup Digits \cup White \cup Punct

\* str.upper() on one character
UpperChar(c) ==
  IF c \in az THEN UpperSeq[CHOOSE k \in 1..26 : LowerSeq[k] = c]
  ELSE IF c \in Range(AccLowerSeq)
       THEN AccUpperSeq[CHOOSE k \in DOMAIN AccLowerSeq : AccLowerSeq[k] = c]
       ELSE c

\* str.lower() on one character (re.IGNORECASE compares case-folded)
LowerChar(c) ==
  IF c \in AZ THEN LowerSeq[CHOOSE k \in 1..26 : UpperSeq[k] = c]
  ELSE IF c \in ACC
       THEN AccLowerSeq[CHOOSE k \in DOMAIN AccUpperSeq : AccUpperSeq[k] = c]
       ELSE c

upper(s) == [k \in 1..Len(s) |-> UpperChar(s[k])]

DigitVal(c) == (CHOOSE k \in 1..10 : DigitSeq[k] = c) - 1

\* int(txt) for a text of decimal digits
RECURSIVE int(_)
int(txt) ==
  IF txt = <<>> THEN 0
  ELSE 10 * int(SubSeq(txt, 1, Len(txt) - 1)) + DigitVal(txt[Len(txt)])

\* s[i:j] of Python, 0-based, j exclusive
Slice(s, i, j) == SubSeq(s, i + 1, j)

(***************************************************************************)
(* Backtracking regular expressions (Python re).  M(r, s, i) is the        *)
(* sequence of positions at which a match of r that starts at position i   *)
(* of s can end, in the order the backtracking matcher tries them; the     *)
(* match re returns is the first one.  Positions count the characters      *)
(* already consumed (0 = start of the text).                               *)
(***************************************************************************)
Set(S) == [t |-> "set", set |-> S]

Cat(rs) == [t |-> "cat", rs |-> rs]

Alt(rs) == [t |-> "alt", rs |-> rs]

\* greedy r{lo,hi}; hi = -1 is "no upper limit"
Rep(r, lo, hi) == [t |-> "rep", r |-> r, lo |-> lo, hi |-> hi]

Opt(r) == Rep(r, 0, 1)

\* (?=r)
Look(r) == [t |-> "look", r |-> r]

\* ^ and $ (no re.MULTILINE; a line holds no newline)
Bol == [t |-> "bol"]

Eol == [t |-> "eol"]

\* a literal text
Lit(s) == Cat([k \in 1..Len(s) |-> Set({s[k]})])

\* a literal text under re.IGNORECASE
LitI(s) == Cat([k \in 1..Len(s) |-> Set({LowerChar(s[k]), UpperChar(s[k])})])

RECURSIVE M(_, _, _), MCat(_, _, _, _), MAlt(_, _, _, _), MRep(_, _, _, _, _), MEach(_, _, _, _, _, _)

\* the ends in es (in order), each continued by the rest of a concatenation
\* (kind "cat": parts k.. of rs) or of a repetition (kind "rep")
MEach(kind, r, s, es, a, b) ==
  IF es = <<>> THEN <<>>
  ELSE (IF kind = "cat" THEN MCat(r, a, s, Head(es))
        ELSE IF Head(es) > b THEN MRep(r.r, r.lo - 1, r.hi - 1, s, Head(es))
        ELSE <<>>)
       \o MEach(kind, r, s, Tail(es), a, b)

MCat(rs, k, s, i) ==
  IF k > Len(rs) THEN <<i>>
  ELSE MEach("cat", rs, s, M(rs[k], s, i), k + 1, 0)

MAlt(rs, k, s, i) ==
  IF k > Len(rs) THEN <<>>
  ELSE M(rs[k], s, i) \o MAlt(rs, k + 1, s, i)

MRep(r, lo, hi, s, i) ==
  LET lo0 == IF lo < 0 THEN 0 ELSE lo
      hi0 == IF hi < 0 THEN -1 ELSE hi
      more == IF hi0 = 0 THEN <<>>
              ELSE MEach("rep", [r |-> r, lo |-> lo0, hi |-> hi0], s, M(r, s, i), 0, i)
  IN more \o (IF lo0 = 0 THEN <<i>> ELSE <<>>)

M(r, s, i) ==
  CASE r.t = "set"  -> IF i < Len(s) /\ s[i + 1] \in r.set THEN <<i + 1>> ELSE <<>>
    [] r.t = "cat"  -> MCat(r.rs, 1, s, i)
    [] r.t = "alt"  -> MAlt(r.rs, 1, s, i)
    [] r.t = "rep"  -> MRep(r.r, r.lo, r.hi, s, i)
    [] r.t = "look" -> IF M(r.r, s, i) # <<>> THEN <<i>> ELSE <<>>
    [] r.t = "bol"  -> IF i = 0 THEN <<i>> ELSE <<>>
    [] r.t = "eol"  -> IF i = Len(s) THEN <<i>> ELSE <<>>

\* no match
NoMatch == [ok |-> FALSE, start |-> 0, end |-> 0]

\* pattern.match(s, pos): the first match that starts at pos
MatchAt(r, s, pos) ==
  LET es == M(r, s, pos)
  IN IF es = <<>> THEN NoMatch ELSE [ok |-> TRUE, start |-> pos, end |-> Head(es)]

\* pattern.search(s, pos): the leftmost match that starts at or after pos
RECURSIVE Search(_, _, _)
Search(r, s, pos) ==
  IF pos > Len(s) THEN NoMatch
  ELSE LET m == MatchAt(r, s, pos)
       IN IF m.ok THEN m ELSE Search(r, s, pos + 1)

\* re.fullmatch(r, s)
FullMatch(r, s) == M(Cat(<<r, Eol>>), s, 0) # <<>>

\* pattern.sub(repl, s) for patterns that match no empty text
RECURSIVE SubFrom(_, _, _, _)
SubFrom(r, repl, s, pos) ==
  LET m == Search(r, s, pos)
  IN IF ~m.ok THEN Slice(s, pos, Len(s))
     ELSE Slice(s, pos, m.start) \o repl \o SubFrom(r, repl, s, m.end)

Sub(r, repl, s) == SubFrom(r, repl, s, 0)

\* the matches of the concatenation rs[k..] from position i, each as the
\* sequence of the positions where its parts end (acc: the parts before k),
\* in the matcher's order: the parts are the pattern's groups
RECURSIVE PCat(_, _, _, _, _), PEach(_, _, _, _, _)
PEach(rs, k, s, es, acc) ==
  IF es = <<>> THEN <<>>
  ELSE PCat(rs, k + 1, s, Head(es), Append(acc, Head(es)))
       \o PEach(rs, k, s, Tail(es), acc)

PCat(rs, k, s, i, acc) ==
  IF k > Len(rs) THEN <<acc>>
  ELSE PEach(rs, k, s, M(rs[k], s, i), acc)

NoGroups == [ok |-> FALSE, start |-> 0, ends |-> <<>>]

\* the leftmost match of the groups rs at or after pos, with every group's end
RECURSIVE SearchGroups(_, _, _)
SearchGroups(rs, s, pos) ==
  IF pos > Len(s) THEN NoGroups
  ELSE LET ps == PCat(rs, 1, s, pos, <<>>)
       IN IF ps # <<>> THEN [ok |-> TRUE, start |-> pos, ends |-> Head(ps)]
          ELSE SearchGroups(rs, s, pos + 1)

(***************************************************************************)
(* SKU helpers                                                             *)
(***************************************************************************)
\* [A-Z0-9\-_ÁÀÂÃÉÈÊÍÌÎÓÒÔÕÚÙÛÇ]
SanitizeKeep == AZ \cup Digits \cup {"-", "_"} \cup ACC

\* str.strip()
RECURSIVE lstrip(_)
lstrip(s) == IF s # <<>> /\ Head(s) \in White THEN lstrip(Tail(s)) ELSE s

RECURSIVE rstrip(_)
rstrip(s) ==
  IF s # <<>> /\ s[Len(s)] \in White THEN rstrip(SubSeq(s, 1, Len(s) - 1)) ELSE s

strip(s) == rstrip(lstrip(s))

sanitize_sku(s) ==
  LET u == SelectSeq(upper(strip(s)), LAMBDA c : c # " ")
  IN SelectSeq(u, LAMBDA c : c \in SanitizeKeep)

normalize_key(s) == SelectSeq(sanitize_sku(s), LAMBDA c : c \in AZ \cup Digits)

(***************************************************************************)
(* processar_pdf_vendas: the patterns                                      *)
(***************************************************************************)
D13 == Rep(Set(Digits), 1, 3)

\* (?:XGG|GG|XG|PP|G|M|P|\d{1,3})
SIZE ==
  Alt(<<Lit(<<"X","G","G">>), Lit(<<"G","G">>), Lit(<<"X","G">>), Lit(<<"P","P">>),
        Lit(<<"G">>), Lit(<<"M">>), Lit(<<"P">>), D13>>)

\* [A-Z0-9ÁÀÂÃÉÈÊÍÌÎÓÒÔÕÚÙÛÇ]+
AlnumSeg == Rep(Set(AZ \cup Digits \cup ACC), 1, -1)

\* (?:[A-Z]{2,}(?:-[A-Z]{2,}){0,2})
LetterSegs ==
  Cat(<<Rep(Set(AZ), 2, -1),
        Rep(Cat(<<Set({"-"}), Rep(Set(AZ), 2, -1)>>), 0, 2)>>)

TOKEN ==
  Cat(<<LetterSegs,
        Set({"-"}), AlnumSeg,
        Opt(Cat(<<Set({"-"}), AlnumSeg>>)),
        Set({"-"}), SIZE>>)

\* ({TOKEN})(\d{1,3})? : group 1, group 2
sku_pattern == <<TOKEN, Opt(D13)>>

\* ^(?:SIZE)(?=(?:[A-Z]{2,}(?:-[A-Z]{2,}){0,2})-)
preface_size_start ==
  Cat(<<Bol, SIZE, Look(Cat(<<LetterSegs, Set({"-"})>>))>>)

\* ,(?:SIZE)(?=(?:[A-Z]{2,}(?:-[A-Z]{2,}){0,2})-)
preface_size_after_comma ==
  Cat(<<Set({","}), SIZE, Look(Cat(<<LetterSegs, Set({"-"})>>))>>)

\* ^(.*-)(XGG|GG|XG|PP|G|M|P|\d{1,3})$ : group 1, group 2, $
size_suffix_re ==
  <<Cat(<<Rep(Set(AnyChar), 0, -1), Set({"-"})>>), SIZE, Eol>>

recognized_sizes ==
  { <<"4">>, <<"6">>, <<"8">>, <<"1","0">>, <<"1","2">>, <<"1","4">>, <<"1","6">>,
    <<"P">>, <<"M">>, <<"G">>, <<"G","G">>, <<"P","P">>, <<"X","G">>, <<"X","G","G">> }

norm(s) ==
  LET s1 == upper(s)
      s2 == Sub(Rep(Set(White), 1, -1), <<>>, s1)
  IN Sub(Rep(Set({"-"}), 2, -1), <<"-">>, s2)

\* Optional[int]: none, or the integer v
NoneInt == [none |-> TRUE, v |-> 0]

SomeInt(n) == [none |-> FALSE, v |-> n]

\* txt is a text or the marker "None"; next_char a one-character text or <<>> for None
maybe_int(txt, next_char) ==
  IF ~FullMatch(D13, txt) THEN NoneInt
  ELSE IF next_char = <<"/">> THEN SomeInt(int(<<txt[1]>>))
  ELSE SomeInt(int(txt))

(***************************************************************************)
(* get_sku_mapping.  A read of the store is [ok, rows]: execute_sql        *)
(* returns None (ok = FALSE) when the query fails.                         *)
(***************************************************************************)
\* Optional[str]: none, or the text v
NoneStr == [none |-> TRUE, v |-> <<>>]

SomeStr(t) == [none |-> FALSE, v |-> t]

\* truth value of an Optional[str]: None and "" are false
Truthy(o) == ~o.none /\ o.v # <<>>

\* {keys[j]: rows[j] for j}.get(k): the LAST row with that key wins; 0 when absent
DictLast(keys, k) ==
  LET hits == { j \in 1..Len(keys) : keys[j] = k }
  IN IF hits = {} THEN 0 ELSE CHOOSE j \in hits : \A h \in hits : h <= j

\* the keys of map1: line 814
MapKeysOf(rows) == [j \in 1..Len(rows) |-> sanitize_sku(rows[j].sku_pdf)]

\* the keys of norm_index: line 821
VariantKeysOf(rows) == [j \in 1..Len(rows) |-> normalize_key(rows[j].sku)]

\* line 822: norm_index.get(...), j = 0 when the key is absent
PickVariant(rows, j) == IF j = 0 THEN NoneStr ELSE SomeStr(rows[j].sku)

\* step 2 of get_sku_mapping: direct match by normalize_key
DirectMatch(key_pdf, var_read) ==
  IF ~var_read.ok THEN NoneStr                \* vdf is None: caught by except
  ELSE IF var_read.rows = <<>> THEN NoneStr
  ELSE PickVariant(var_read.rows,
                   DictLast(VariantKeysOf(var_read.rows), normalize_key(key_pdf)))

\* lines 815-823: j is the row of map1 with the key, 0 when there is none
LookupAt(j, key_pdf, map_read, var_read) ==
  IF j # 0 THEN SomeStr(map_read.rows[j].sku_estoque)
  ELSE DirectMatch(key_pdf, var_read)

\* lines 812-823, for key_pdf = sanitize_sku(sku_pdf_norm)
LookupKey(key_pdf, map_read, var_read) ==
  LookupAt(IF map_read.ok THEN DictLast(MapKeysOf(map_read.rows), key_pdf) ELSE 0,
           key_pdf, map_read, var_read)

\* the two steps of lines 811-823 in the other order
get_sku_mapping_catalog_first(sku_pdf_norm, map_read, var_read) ==
  LET key_pdf == sanitize_sku(sku_pdf_norm)
      j == IF map_read.ok THEN DictLast(MapKeysOf(map_read.rows), key_pdf) ELSE 0
      cand == DirectMatch(key_pdf, var_read)
  IN IF ~cand.none THEN cand
     ELSE IF j # 0 THEN SomeStr(map_read.rows[j].sku_estoque)
     ELSE NoneStr

get_sku_mapping(sku_pdf_norm, map_read, var_read) ==
  LookupKey(sanitize_sku(sku_pdf_norm), map_read, var_read)

(***************************************************************************)
(* processar_pdf_vendas: the scan of one merged line.  The scan state is   *)
(* [movimentos, vistos, pending_sku, last_end]; pending_sku = <<>> is None.*)
(***************************************************************************)
\* "mapped or sku_n" written "sku_n if mapped is None else mapped"
ResolveWith_none_only(sku_n, mapped) ==
  [sku |-> IF mapped.none THEN sku_n ELSE mapped.v, mapeado |-> Truthy(mapped)]

\* lines 959, 961: "sku": mapped or sku_n, "mapeado": bool(mapped)
ResolveWith(sku_n, mapped) ==
  [sku |-> IF Truthy(mapped) THEN mapped.v ELSE sku_n, mapeado |-> Truthy(mapped)]

\* lines 955-962: mapped = get_sku_mapping(sku_n) and what the fact keeps of it
ResolveFact(sku_n, map_read, var_read) ==
  ResolveWith(sku_n, get_sku_mapping(sku_n, map_read, var_read))

\* the dictionary appended to movimentos (its constant columns "produto" and
\* "variacao" are left out); r is the resolution of sku_n
FactOf(sku_n, q, r) ==
  [sku_pdf |-> sku_n, sku |-> r.sku, quantidade |-> q, mapeado |-> r.mapeado]

Fact(sku_n, q, db) == FactOf(sku_n, q, ResolveFact(sku_n, db.map_read, db.var_read))

\* the test of line 953 comparing the keys by their letters and digits only
EmitKey_alnum_key(st, sku_n, q, db) ==
  IF \E p \in st.vistos : normalize_key(p[1]) = normalize_key(sku_n) /\ p[2] = q THEN st
  ELSE [st EXCEPT !.vistos = @ \cup {<<sku_n, q>>},
                  !.movimentos = Append(@, Fact(sku_n, q, db))]

\* lines 952-963 for sku_n = norm(token): "if key not in vistos"
EmitKey(st, sku_n, q, db) ==
  IF <<sku_n, q>> \in st.vistos THEN st
  ELSE [st EXCEPT !.vistos = @ \cup {<<sku_n, q>>},
                  !.movimentos = Append(@, Fact(sku_n, q, db))]

\* the emit without the test "if key not in vistos"
Emit_no_dedup(st, token, q, db) ==
  LET sku_n == norm(token)
  IN [st EXCEPT !.vistos = @ \cup {<<sku_n, q>>},
                !.movimentos = Append(@, Fact(sku_n, q, db))]

\* lines 950-963, 974-986, 992-1004
Emit(st, token, q, db) == EmitKey(st, norm(token), q, db)

\* lines 935-939: while len(s) > 1 and s not in recognized_sizes
RECURSIVE TakeLoop(_, _)
TakeLoop(s, take) ==
  IF Len(s) > 1 /\ s \notin recognized_sizes
  THEN TakeLoop(SubSeq(s, 1, Len(s) - 1), <<s[Len(s)]>> \o take)
  ELSE [s |-> s, take |-> take]

\* lines 933-941: the digits taken off an unrecognized numeric size
SplitTake(token, qty_str, g1, size_part, lp) ==
  IF /\ qty_str = <<>>
     /\ FullMatch(Rep(Set(Digits), 2, 3), size_part)
     /\ size_part \notin recognized_sizes
     /\ lp.take # <<>>
  THEN [token_out |-> g1 \o lp.s, qty_str |-> lp.take]
  ELSE [token_out |-> token, qty_str |-> qty_str]

\* lines 942-944: a three-digit size still without a quantity
SplitThree(g1, size_part, first) ==
  IF first.qty_str = <<>> /\ FullMatch(Rep(Set(Digits), 3, 3), size_part)
  THEN [token_out |-> g1 \o Slice(size_part, 0, 2),
        qty_str |-> Slice(size_part, 2, Len(size_part))]
  ELSE first

\* lines 932-944 for the groups g1 = ms.group(1), size_part = ms.group(2)
SplitGroups(token, qty_str, g1, size_part) ==
  SplitThree(g1, size_part,
             SplitTake(token, qty_str, g1, size_part, TakeLoop(size_part, <<>>)))

\* lines 931-944 for ms = size_suffix_re.match(token): <<>> when there is no
\* match, else the ends of its groups
SplitAt(token, qty_str, ms) ==
  IF ms = <<>> THEN [token_out |-> token, qty_str |-> qty_str]
  ELSE SplitGroups(token, qty_str, Slice(token, 0, Head(ms)[1]),
                   Slice(token, Head(ms)[1], Head(ms)[2]))

\* lines 930-945: the size/quantity split of a match; qty_str = <<>> is None
SplitSize(token, qty_str) ==
  SplitAt(token, qty_str, PCat(size_suffix_re, 1, token, 0, <<>>))

\* compact[k] of Python for k >= -1, as a one-character text
CharAt(compact, k) == IF k < 0 THEN <<compact[Len(compact) + 1 + k]>> ELSE <<compact[k + 1]>>

\* line 947; end2 = m.end(2) is -1 when group 2 took no part in the match
NextChar(compact, qty_str, end1, end2) ==
  IF (IF qty_str # <<>> THEN end2 < Len(compact) ELSE FALSE)
  THEN CharAt(compact, end2)
  ELSE IF end1 < Len(compact) THEN CharAt(compact, end1) ELSE <<>>

\* m.end(2): -1 when group 2 took no part in the match
End2(m) == IF m.ends[2] > m.ends[1] THEN m.ends[2] ELSE -1

\* lines 950-967 without the "pending_sku = None" of line 964
ProcessQty_keeps_pending(st, m, db, sp, qty_val) ==
  [ (IF ~qty_val.none
     THEN Emit(st, sp.token_out, qty_val.v, db)
     ELSE [st EXCEPT !.pending_sku = sp.token_out])
    EXCEPT !.last_end = m.ends[2] ]

\* lines 950-967 with line 966 keeping a token that is already pending
ProcessQty_keeps_first(st, m, db, sp, qty_val) ==
  [ (IF ~qty_val.none
     THEN [Emit(st, sp.token_out, qty_val.v, db) EXCEPT !.pending_sku = <<>>]
     ELSE [st EXCEPT !.pending_sku = IF @ # <<>> THEN @ ELSE sp.token_out])
    EXCEPT !.last_end = m.ends[2] ]

\* lines 950-967 for the split sp and qty_val = maybe_int(qty_str, next_char)
ProcessQty(st, m, db, sp, qty_val) ==
  [ (IF ~qty_val.none
     THEN [Emit(st, sp.token_out, qty_val.v, db) EXCEPT !.pending_sku = <<>>]
     ELSE [st EXCEPT !.pending_sku = sp.token_out])
    EXCEPT !.last_end = m.ends[2] ]

\* lines 947-948 for the split sp of the match
ProcessSplit(st, compact, m, db, sp) ==
  ProcessQty(st, m, db, sp,
             IF sp.qty_str # <<>>
             THEN maybe_int(sp.qty_str, NextChar(compact, sp.qty_str, m.ends[1], End2(m)))
             ELSE NoneInt)

\* the body of "for m in sku_pattern.finditer(compact)": lines 927-967
ProcessMatch(st, compact, m, db) ==
  ProcessSplit(st, compact, m, db,
               SplitSize(Slice(compact, m.start, m.ends[1]),
                         IF End2(m) = -1 THEN <<>> ELSE Slice(compact, m.ends[1], m.ends[2])))

\* the finditer loop from the match m on
RECURSIVE MatchesFrom(_, _, _, _)
MatchesFrom(st, compact, m, db) ==
  IF ~m.ok THEN st
  ELSE MatchesFrom(ProcessMatch(st, compact, m, db), compact,
                   SearchGroups(sku_pattern, compact, m.ends[2]), db)

\* lines 926-967: for m in sku_pattern.finditer(compact)
ScanMatches(st, compact, pos, db) ==
  MatchesFrom(st, compact, SearchGroups(sku_pattern, compact, pos), db)

\* lines 970-990: the quantity the tail gives the pending token, if any
PendingQty(tail, m2) ==
  IF FullMatch(D13, tail) THEN maybe_int(tail, <<>>)
  ELSE IF m2 # <<>> THEN SomeInt(int(Slice(tail, Head(m2)[1], Head(m2)[2])))
  ELSE NoneInt

\* the resolution without the "pending_sku = None" of lines 987 and 1005
ResolvePending_keeps_pending(st, compact, db) ==
  IF st.pending_sku = <<>> THEN st
  ELSE
    LET tail == Slice(compact, st.last_end, Len(compact))
        m2 == PCat(<<Opt(SIZE), D13, Eol>>, 1, tail, 0, <<>>)
    IN IF FullMatch(D13, tail)
       THEN LET q == maybe_int(tail, <<>>)
            IN IF ~q.none THEN Emit(st, st.pending_sku, q.v, db) ELSE st
       ELSE IF m2 # <<>>
            THEN Emit(st, st.pending_sku, int(Slice(tail, Head(m2)[1], Head(m2)[2])), db)
            ELSE st

\* lines 973-987, 991-1005 for the quantity q of the tail
ResolveWithQty(st, q, db) ==
  IF q.none THEN st
  ELSE [Emit(st, st.pending_sku, q.v, db) EXCEPT !.pending_sku = <<>>]

\* lines 970-1005 for tail = compact[last_end:]
ResolveTail(st, tail, db) ==
  ResolveWithQty(st, PendingQty(tail, PCat(<<Opt(SIZE), D13, Eol>>, 1, tail, 0, <<>>)), db)

\* lines 969-1005: "if pending_sku:"
ResolvePending(st, compact, db) ==
  IF st.pending_sku = <<>> THEN st
  ELSE ResolveTail(st, Slice(compact, st.last_end, Len(compact)), db)

\* lines 924-1005 for the line as compacted by lines 921-923
ScanCompact(st, compact, db) ==
  ResolvePending(ScanMatches([st EXCEPT !.last_end = 0], compact, 0, db), compact, db)

\* lines 921-1005: one iteration of "for ln in merged"
ScanLine(st, ln, db) ==
  ScanCompact(st,
              Sub(preface_size_after_comma, <<",">>,
                  Sub(preface_size_start, <<>>, norm(ln))),
              db)

(***************************************************************************)
(* processar_pdf_vendas: lines 852-886, from the extracted lines to merged *)
(***************************************************************************)
\* a set of letters under re.IGNORECASE
SetI(S) == Set({LowerChar(c) : c \in S} \cup {UpperChar(c) : c \in S})

D1N == Rep(Set(Digits), 1, -1)

\* \s+\d+/\d+\s*$
PageSuffix ==
  Cat(<<Rep(Set(White), 1, -1), D1N, Set({"/"}), D1N, Rep(Set(White), 0, -1), Eol>>)

skip_re ==
  Alt(<<
    Cat(<<Bol, LitI(<<"L","I","S","T","A"," ","D","E"," ","R","E","S","U","M","O">>)>>),
    Cat(<<Bol, LitI(<<"(","P","R","O","D","U","T","O","S"," ","D","O"," ","A","R","M","A","Z">>), SetI({"E", "E_acute"}), LitI(<<"M",")">>)>>),
    Cat(<<Bol, LitI(<<"P","R","O","D","U","T","O","S"," ","D","O"," ","A","R","M","A","Z">>), SetI({"E", "E_acute"}), LitI(<<"M">>)>>),
    Cat(<<Bol, LitI(<<"V","A","R","I","A">>), SetI({"C", "C_cedil"}), SetI({"A", "A_tilde"}), LitI(<<"O">>), Eol>>),
    Cat(<<Bol, LitI(<<"S","K","U"," ","D","E"," ","P","R","O","D","U","T","O">>), Eol>>),
    Cat(<<Bol, LitI(<<"Q","T","D">>), Opt(Set({"."})), Eol>>),
    Cat(<<Bol, LitI(<<"I","M","P","R","I","M","I","R">>), Rep(Set(AnyChar), 0, -1), LitI(<<"U","P","S","E","L","L","E","R">>)>>),
    Cat(<<Bol, LitI(<<"H","T","T","P">>), Opt(SetI({"S"})), Lit(<<":","/","/">>)>>),
    Cat(<<Bol, D1N, Set({"/"}), D1N, Eol>>),
    Cat(<<Bol, Rep(Set(Digits), 1, 2), Set({"/"}), Rep(Set(Digits), 1, 2), Set({"/"}),
          Rep(Set(Digits), 4, 4)>>),
    Cat(<<Bol, LitI(<<"Q","T","D","."," ","D","E"," ","P","E","D","I","D","O","S">>)>>),
    Cat(<<Bol, LitI(<<"N">>), SetI({"U_acute", "U"}), LitI(<<"M","E","R","O"," ","D","E"," ","S","K","U","S"," ","D","E"," ","P","R","O","D","U","T","O","S">>)>>),
    Cat(<<Bol, LitI(<<"T","O","T","A","L"," ","D","E"," ","P","R","O","D","U","T","O","S">>)>>)
  >>)

\* lines 852-872: strip, drop the empty lines, cut the page suffix, drop boilerplate
kept(lines) ==
  LET stripped == [k \in 1..Len(lines) |-> strip(lines[k])]
      nonempty == SelectSeq(stripped, LAMBDA ln : ln # <<>>)
      cut == [k \in 1..Len(nonempty) |-> Sub(PageSuffix, <<>>, nonempty[k])]
  IN SelectSeq(cut, LAMBDA ln : ~Search(skip_re, ln, 0).ok)

endswith_hyphen(s) == s # <<>> /\ s[Len(s)] = "-"

\* lines 880-882: while cur.endswith("-") and i < len(kept)
RECURSIVE JoinMore(_, _, _)
JoinMore(ks, cur, i) ==
  IF endswith_hyphen(cur) /\ i < Len(ks)
  THEN JoinMore(ks, cur \o ks[i + 1], i + 1)
  ELSE [cur |-> cur, i |-> i]

\* lines 873-886: while i < len(kept); i is Python's 0-based index
RECURSIVE MergeFrom(_, _)
MergeFrom(ks, i) ==
  IF i >= Len(ks) THEN <<>>
  ELSE LET cur == ks[i + 1]
       IN IF endswith_hyphen(cur) /\ i + 1 < Len(ks)
          THEN LET j == JoinMore(ks, cur \o ks[i + 2], i + 2)
               IN <<j.cur>> \o MergeFrom(ks, j.i)
          ELSE <<cur>> \o MergeFrom(ks, i + 1)

\* lines 873-886 left out: the kept lines as they are
merged_of_unjoined(lines) == kept(lines)

merged_of(lines) == MergeFrom(kept(lines), 0)

(***************************************************************************)
(* State                                                                   *)
(***************************************************************************)
VARIABLES
  variants,      \* table variants as list_variants_df lists it: <<[id, sku]>>
  movements,     \* table movements: <<[variant_id, qty, reason]>>
  sku_mapping,   \* table sku_mapping: <<[sku_pdf, sku_estoque]>>
  db_ok,         \* whether the reads of the store succeed during this parse
  lines,         \* the text lines extracted from the uploaded PDF
  merged,        \* processar_pdf_vendas: merged
  idx,           \* lines of merged already scanned
  movimentos,    \* processar_pdf_vendas: movimentos
  vistos,        \* processar_pdf_vendas: vistos
  pending_sku,   \* processar_pdf_vendas: pending_sku (<<>> is None)
  result,        \* what processar_pdf_vendas returned: [ok, movimentos, msg]
  pc,            \* "idle", "scan", "nothing", "preview", "applying", "done"
  msg,           \* what the page last reported
  edited,        \* the rows of the data editor
  confirm_high,  \* checkbox "Confirmo as quantidades altas"
  grava_map,     \* checkbox "Salvar/atualizar mapeamentos"
  snap,          \* sku list and stock map read when the page was rendered
  row,           \* rows of edited already handled by "Aplicar baixas"
  counters,      \* [ok_count, mapeados, erros, faltando]
  edits,         \* number of edits of the table so far
  commits,       \* number of batches "Aplicar baixas" has started
  query          \* SpecResolve: the last get_sku_mapping call and its result

store == <<variants, movements, sku_mapping>>

parse == <<db_ok, lines, merged, idx, movimentos, vistos, pending_sku, result>>

session == <<edited, confirm_high, grava_map, snap, row, counters, edits, commits>>

vars == <<variants, movements, sku_mapping, db_ok, lines, merged, idx, movimentos,
          vistos, pending_sku, result, pc, msg, edited, confirm_high, grava_map, snap, row,
          counters, edits, commits, query>>

(***************************************************************************)
(* Bounds and inputs                                                       *)
(***************************************************************************)
\* lines of one document in SpecParse
MaxLines == 2

\* edits of the preview table in one behaviour
MaxEdits == 1

\* variants in the catalog
MaxVariants == 2

\* entries of the mapping table when a behaviour starts
MaxMappings == 1

MOL_M == <<"M","O","L","-","C","A","R","E","C","A","-","A","Z","U","L","-","M">>

CAM == <<"C","A","M","-","P","R","E","T","O">>

CAM_GG == CAM \o <<"-","G","G">>

CAM_M == CAM \o <<"-","M">>

SHORT_P == <<"S","H","O","R","T","-","A","Z","U","L","-","P">>

\* the lines a document of SpecParse is made of
ParseLines ==
  { MOL_M \o <<"1","2">>,                       \* SKU with a fused quantity
    CAM_GG \o <<"5">>,
    <<"c","a","m","-","p","r","e","t","o","-","g","g"," ","5"," "," ","1","/","3">>,               \* the same, as extracted with a page suffix
    CAM \o <<"-">>,                          \* wrapped after a hyphen ...
    <<"G","G","5">>,                               \* ... and its continuation
    SHORT_P,                             \* bare SKU
    CAM_GG,
    <<"3">>, <<"0">>,                            \* digits only
    CAM_M \o <<"0">>,
    CAM \o <<"-","1","2","5">>,                       \* digits fused onto a numeric size
    CAM \o <<"-","1","9","9">>,
    CAM_M \o <<"1","2","/","0","5","/","2","0","2","4">>,               \* quantity digits followed by a date
    CAM \o <<"-","1","9","9",",">> \o SHORT_P \o <<"3","/">>,
    CAM_GG \o <<"5",",">> \o CAM_GG \o <<"5">>,     \* the same pair twice on a line
    <<"1","2">> \o CAM_GG \o <<"5">>,            \* stray size in front of the SKU
    <<"C","A","M","-","P","R","E","-","T","O","-","G","G","5">>,   \* CAM-PRETO-GG5 with one more hyphen
    SHORT_P \o <<",">> \o CAM_GG,               \* two bare SKUs on one line
    SHORT_P \o <<",">> \o CAM_GG \o <<"5">>,     \* a bare SKU, then one with a quantity
    <<"L","I","S","T","A"," ","D","E"," ","R","E","S","U","M","O">> }

Docs(L, n) == UNION { [1..k -> L] : k \in 1..n }

ParseDocs == Docs(ParseLines, MaxLines)


(***************************************************************************)
(* The store                                                               *)
(***************************************************************************)
S_CAM_GG == CAM_GG

\* the same SKU as "Editar Variante" or update_sku_base_bulk may write it
S_CAM_GG_title == <<"C","A","M","-","P","r","e","t","o","-","G","G">>

S_CAMPRETO_GG == <<"C","A","M","P","R","E","T","O","-","G","G">>

S_SHORT_P == SHORT_P

SkuPool == {S_CAM_GG, S_CAM_GG_title, S_CAMPRETO_GG, S_SHORT_P}

\* the sequences without repetition of at most n members of S
Arrangements(S, n) ==
  UNION { { f \in [1..k -> S] : \A a, b \in 1..k : a # b => f[a] # f[b] } : k \in 0..n }

\* variants.sku is UNIQUE; the ids are the positions
Catalogs(S, n) ==
  { [j \in 1..Len(f) |-> [id |-> j, sku |-> f[j]]] : f \in Arrangements(S, n) }

\* sku_mapping.sku_pdf is UNIQUE and written sanitized (lines 1453, 1686)
MapKeys == {S_CAM_GG, S_SHORT_P}

MapTables(T, n) ==
  { f \in UNION { [1..k -> [sku_pdf : MapKeys, sku_estoque : T]] : k \in 0..n } :
      \A a, b \in DOMAIN f : a # b => f[a].sku_pdf # f[b].sku_pdf }

\* the stock a variant starts with, by its position in the catalog
InitStock == <<5, 0, 2>>

\* one "entrada" movement per variant with a stock
StockMovements(n) ==
  LET all == [j \in 1..n |-> [variant_id |-> j, qty |-> InitStock[j], reason |-> "entrada"]]
  IN SelectSeq(all, LAMBDA m : m.qty # 0)

\* stock_view: COALESCE(SUM(m.qty), 0) of the variant's movements
RECURSIVE SumQty(_, _)
SumQty(ms, vid) ==
  IF ms = <<>> THEN 0
  ELSE (IF Head(ms).variant_id = vid THEN Head(ms).qty ELSE 0) + SumQty(Tail(ms), vid)

\* stock_df(): one row [sku, estoque] per variant
stock_df == [j \in 1..Len(variants) |->
               [sku |-> variants[j].sku, estoque |-> SumQty(movements, variants[j].id)]]

\* execute_sql("SELECT sku_pdf, sku_estoque FROM sku_mapping") and list_variants_df()
ReadStore(up) ==
  [map_read |-> [ok |-> up, rows |-> IF up THEN sku_mapping ELSE <<>>],
   var_read |-> [ok |-> up, rows |-> IF up THEN variants ELSE <<>>]]

InitStore(cats, tables) ==
  /\ variants \in cats
  /\ movements = StockMovements(Len(variants))
  /\ sku_mapping \in tables

NoCounters == [ok_count |-> 0, mapeados |-> 0, erros |-> 0, faltando |-> 0]

NoQuery == [sku_pdf |-> <<>>, map_ok |-> TRUE, var_ok |-> TRUE,
            sku |-> <<>>, mapeado |-> FALSE, asked |-> FALSE]

InitSession ==
  /\ db_ok = TRUE
  /\ lines = <<>>
  /\ merged = <<>>
  /\ idx = 0
  /\ movimentos = <<>>
  /\ vistos = {}
  /\ pending_sku = <<>>
  /\ result = [ok |-> FALSE, movimentos |-> <<>>, msg |-> "none"]
  /\ pc = "idle"
  /\ msg = "none"
  /\ edited = <<>>
  /\ confirm_high = FALSE
  /\ grava_map = TRUE
  /\ snap = <<>>
  /\ row = 0
  /\ counters = NoCounters
  /\ edits = 0
  /\ commits = 0
  /\ query = NoQuery

(***************************************************************************)
(* processar_pdf_vendas as steps: the upload, one step per merged line,    *)
(* the return                                                              *)
(***************************************************************************)
\* the upload with lines 916-918 left out: the lists of the run before stay
Upload_keeps_state(docs, ups) ==
  /\ pc = "idle"
  /\ \E d \in docs, up \in ups :
       /\ lines' = d
       /\ merged' = merged_of(d)
       /\ db_ok' = up
  /\ idx' = 0
  /\ result' = [ok |-> FALSE, movimentos |-> <<>>, msg |-> "none"]
  /\ pc' = "scan"
  /\ msg' = "none"
  /\ UNCHANGED <<store, movimentos, vistos, pending_sku, session, query>>

\* a PDF whose text is the lines d is uploaded: lines 834-918
Upload(docs, ups) ==
  /\ pc = "idle"
  /\ \E d \in docs, up \in ups :
       /\ lines' = d
       /\ merged' = merged_of(d)
       /\ db_ok' = up
  /\ idx' = 0
  /\ movimentos' = <<>>
  /\ vistos' = {}
  /\ pending_sku' = <<>>
  /\ result' = [ok |-> FALSE, movimentos |-> <<>>, msg |-> "none"]
  /\ pc' = "scan"
  /\ msg' = "none"
  /\ UNCHANGED <<store, session, query>>

\* the PDF library raises: lines 1012-1015 return (False, [], "Erro ...")
UploadUnreadable ==
  /\ pc = "idle"
  /\ result' = [ok |-> FALSE, movimentos |-> <<>>, msg |-> "erro_ao_processar"]
  /\ pc' = "nothing"
  /\ msg' = "nao_foi_possivel_identificar"
  /\ UNCHANGED <<store, db_ok, lines, merged, idx, movimentos, vistos, pending_sku,
                 session, query>>

\* one iteration of "for ln in merged": lines 920-1005
ScanStep ==
  /\ pc = "scan"
  /\ idx < Len(merged)
  /\ \E st \in { ScanLine([movimentos |-> movimentos, vistos |-> vistos,
                            pending_sku |-> pending_sku, last_end |-> 0],
                           merged[idx + 1], ReadStore(db_ok)) } :
       /\ movimentos' = st.movimentos
       /\ vistos' = st.vistos
       /\ pending_sku' = st.pending_sku
  /\ idx' = idx + 1
  /\ UNCHANGED <<store, db_ok, lines, merged, result, pc, msg, session, query>>

\* a statement of the scan raises: lines 1012-1015 return (False, [], "Erro ...")
\* whatever movimentos holds, and the page reports that nothing was identified
ScanRaises ==
  /\ pc = "scan"
  /\ result' = [ok |-> FALSE, movimentos |-> <<>>, msg |-> "erro_ao_processar"]
  /\ pc' = "nothing"
  /\ msg' = "nao_foi_possivel_identificar"
  /\ confirm_high' = FALSE
  /\ UNCHANGED <<store, db_ok, lines, merged, idx, movimentos, vistos, pending_sku,
                 edited, grava_map, snap, row, counters, edits, commits, query>>

HIGH_QTY_THRESHOLD == 99

Max(a, b) == IF a >= b THEN a ELSE b

Abs(n) == IF n < 0 THEN 0 - n ELSE n

\* line 1327: "Qtd. (usada)", clip(lower=0)
QtdUsada(r) == Max(r.quantidade_corrigida, 0)

\* the comparison of line 1344 written one too high
confirm_high_needed_off_by_one(rows) ==
  \E k \in 1..Len(rows) : QtdUsada(rows[k]) > HIGH_QTY_THRESHOLD + 1

\* lines 1344, 1374-1375: some row has "Qtd muito alta?"
confirm_high_needed(rows) ==
  \E k \in 1..Len(rows) : QtdUsada(rows[k]) > HIGH_QTY_THRESHOLD

\* the comparison of line 1412 written "< 0"
AnyInvalidQty_negative_only(rows) == \E k \in 1..Len(rows) : rows[k].quantidade_corrigida < 0

\* lines 1388, 1412: (edited["quantidade_corrigida"] <= 0).any()
AnyInvalidQty(rows) == \E k \in 1..Len(rows) : rows[k].quantidade_corrigida <= 0

\* lines 1376-1384: the checkbox exists only while a high quantity is shown
KeepConfirm(rows, c) == IF confirm_high_needed(rows) THEN c ELSE FALSE

\* lines 1275, 1278: the editor's rows, "quantidade_corrigida" = "quantidade"
EditorRows(ms) ==
  [k \in 1..Len(ms) |->
     [sku_pdf |-> ms[k].sku_pdf, sku |-> ms[k].sku, quantidade |-> ms[k].quantidade,
      mapeado |-> ms[k].mapeado, quantidade_corrigida |-> ms[k].quantidade]]

\* lines 1007-1010 with the test of line 1007 left out
ParseResult_always_ok(ms) == [ok |-> TRUE, movimentos |-> ms, msg |-> "encontrados"]

\* lines 1007-1010: the value returned at the end of the scan
ParseResult(ms) ==
  IF ms = <<>> THEN [ok |-> FALSE, movimentos |-> <<>>, msg |-> "nenhum_item_encontrado"]
  ELSE [ok |-> TRUE, movimentos |-> ms, msg |-> "encontrados"]

\* lines 1007-1010 and 1264-1275: the return and what the page does with it
ParseReturn ==
  /\ pc = "scan"
  /\ idx = Len(merged)
  /\ result' = ParseResult(movimentos)
  /\ IF ~result'.ok \/ result'.movimentos = <<>>
     THEN /\ pc' = "nothing"
          /\ msg' = "nao_foi_possivel_identificar"
          /\ confirm_high' = FALSE
          /\ UNCHANGED <<edited, snap>>
     ELSE /\ pc' = "preview"
          /\ msg' = "encontrados"
          /\ edited' = EditorRows(result'.movimentos)
          /\ snap' = stock_df
          /\ confirm_high' = KeepConfirm(edited', confirm_high)
  /\ UNCHANGED <<store, db_ok, lines, merged, idx, movimentos, vistos, pending_sku,
                 grava_map, row, counters, edits, commits, query>>

(***************************************************************************)
(* Page "Baixa por PDF": the preview and its buttons.  Every interaction   *)
(* runs the page again, so every action reads the store anew (snap).       *)
(***************************************************************************)
\* the keys of sanitized_to_original_sku_map(): line 275
SnapKeysOf(sn) == [j \in 1..Len(sn) |-> sanitize_sku(sn[j].sku)]

\* the lookup answering with the first SKU of the catalog for any key
SanToOrig_any_key(sn, key) == IF sn = <<>> THEN 0 ELSE 1

\* sanitized_to_original_sku_map(): {sanitize_sku(s): s}, 0 when the key is absent
SanToOrig(sn, key) == DictLast(SnapKeysOf(sn), key)

\* lines 1314-1317: sku_san_to_orig.get(sanitize_sku(s), s)
to_original_if_possible(sn, sku_val) ==
  LET j == SanToOrig(sn, sanitize_sku(sku_val))
  IN IF j = 0 THEN sku_val ELSE sn[j].sku

\* lines 1310, 1330: map_estoque.get(str(s), 0)
map_estoque(sn, s) ==
  LET j == DictLast([i \in 1..Len(sn) |-> sn[i].sku], s)
  IN IF j = 0 THEN 0 ELSE sn[j].estoque

\* status_row with the first test written "after <= 0"
status_row_le(after) ==
  IF after <= 0 THEN "FICA NEGATIVO" ELSE "OK"

\* lines 1336-1341
status_row(after) ==
  IF after < 0 THEN "FICA NEGATIVO"
  ELSE IF after = 0 THEN "ZERA ESTOQUE"
  ELSE "OK"

\* lines 1319-1344: the row of preview for the row r of edited.  antes is
\* "Estoque atual (antes)", apos "Estoque apos (simulado)", alta "Qtd muito alta?"
PreviewRow(sn, r) ==
  LET sku == to_original_if_possible(sn, r.sku)
      antes == map_estoque(sn, sku)
      apos == antes - QtdUsada(r)
  IN [sku_pdf |-> r.sku_pdf, sku |-> sku, qtd_pdf |-> r.quantidade,
      qtd_usada |-> QtdUsada(r), antes |-> antes, apos |-> apos,
      status |-> status_row(apos), alta |-> QtdUsada(r) > HIGH_QTY_THRESHOLD]

\* lines 1312-1350: the table the page shows for edited and the store as read
preview == [k \in 1..Len(edited) |-> PreviewRow(snap, edited[k])]

\* the values an operator types into "Qtd. corrigida"
QtyChoices == {0, 99, 100}

\* the texts an operator types into "SKU (no estoque)"
SkuChoices == {<<>>, <<"c","a","m","-","p","r","e","t","o"," ","-","g","g">>, <<"N","A","O","-","E","X","I","S","T","E","-","P">>}

Rerun(rows) ==
  /\ snap' = stock_df
  /\ confirm_high' = KeepConfirm(rows, confirm_high)

EditQty ==
  /\ pc = "preview"
  /\ edits < MaxEdits
  /\ \E k \in 1..Len(edited), q \in QtyChoices :
       /\ q # edited[k].quantidade_corrigida
       /\ edited' = [edited EXCEPT ![k].quantidade_corrigida = q]
  /\ edits' = edits + 1
  /\ Rerun(edited')
  /\ msg' = "none"
  /\ UNCHANGED <<store, parse, pc, grava_map, row, counters, commits, query>>

EditSku ==
  /\ pc = "preview"
  /\ edits < MaxEdits
  /\ \E k \in 1..Len(edited), t \in SkuChoices :
       /\ t # edited[k].sku
       /\ edited' = [edited EXCEPT ![k].sku = t]
  /\ edits' = edits + 1
  /\ Rerun(edited')
  /\ msg' = "none"
  /\ UNCHANGED <<store, parse, pc, grava_map, row, counters, commits, query>>

\* num_rows="dynamic": a row is removed
DeleteRow ==
  /\ pc = "preview"
  /\ edits < MaxEdits
  /\ \E k \in 1..Len(edited) :
       edited' = SubSeq(edited, 1, k - 1) \o SubSeq(edited, k + 1, Len(edited))
  /\ edits' = edits + 1
  /\ Rerun(edited')
  /\ msg' = "none"
  /\ UNCHANGED <<store, parse, pc, grava_map, row, counters, commits, query>>

\* line 1384
ToggleConfirmHigh ==
  /\ pc = "preview"
  /\ confirm_high_needed(edited)
  /\ confirm_high' = ~confirm_high
  /\ snap' = stock_df
  /\ msg' = "none"
  /\ UNCHANGED <<store, parse, pc, edited, grava_map, row, counters, edits, commits, query>>

\* line 1400
ToggleGravaMap ==
  /\ pc = "preview"
  /\ grava_map' = ~grava_map
  /\ snap' = stock_df
  /\ msg' = "none"
  /\ UNCHANGED <<store, parse, pc, edited, confirm_high, row, counters, edits, commits, query>>

\* the button recording what it simulates
Simular_records ==
  /\ pc = "preview"
  /\ msg' = IF AnyInvalidQty(edited) THEN "erro_qtd_invalida_simular" ELSE "simulacao"
  /\ snap' = stock_df
  /\ movements' = Append(movements, [variant_id |-> 0, qty |-> 0, reason |-> "simulacao"])
  /\ UNCHANGED <<variants, sku_mapping, parse, pc, edited, confirm_high, grava_map, row,
                 counters, edits, commits, query>>

\* lines 1387-1398
Simular ==
  /\ pc = "preview"
  /\ msg' = IF AnyInvalidQty(edited) THEN "erro_qtd_invalida_simular" ELSE "simulacao"
  /\ snap' = stock_df
  /\ UNCHANGED <<store, parse, pc, edited, confirm_high, grava_map, row, counters,
                 edits, commits, query>>

\* the checks before the loop of "Aplicar baixas": lines 1404-1414
Blocked(rows, confirmed) ==
  IF confirm_high_needed(rows) /\ ~confirmed THEN "erro_qtd_alta"
  ELSE IF rows = <<>> THEN "erro_sem_itens"
  ELSE IF AnyInvalidQty(rows) THEN "erro_qtd_invalida"
  ELSE "none"

\* lines 1403-1421: the button, its checks, the counters
Aplicar ==
  /\ pc = "preview"
  /\ snap' = stock_df
  /\ LET b == Blocked(edited, confirm_high)
     IN IF b # "none"
        THEN /\ msg' = b
             /\ UNCHANGED <<pc, row, counters, commits>>
        ELSE /\ pc' = "applying"
             /\ msg' = "none"
             /\ row' = 0
             /\ counters' = NoCounters
             /\ commits' = commits + 1
  /\ UNCHANGED <<store, parse, edited, confirm_high, grava_map, edits, query>>

\* record_movement: lines 397-442; 0 when no variant has the SKU
VariantBySku(sku) ==
  LET hits == { j \in 1..Len(variants) : variants[j].sku = sku }
  IN IF hits = {} THEN 0 ELSE CHOOSE j \in hits : TRUE

\* the insert replacing the rows of the table
record_movement_overwrites(sku, qty, reason) ==
  <<[variant_id |-> variants[VariantBySku(sku)].id, qty |-> qty, reason |-> reason]>>

record_movement(sku, qty, reason) ==
  Append(movements, [variant_id |-> variants[VariantBySku(sku)].id,
                     qty |-> qty, reason |-> reason])

\* the upsert with the key of the row written as its target
Upsert_key_as_target(table, sku_pdf, sku_estoque) ==
  IF \E j \in 1..Len(table) : table[j].sku_pdf = sku_pdf
  THEN [j \in 1..Len(table) |->
          IF table[j].sku_pdf = sku_pdf
          THEN [table[j] EXCEPT !.sku_estoque = sku_pdf] ELSE table[j]]
  ELSE Append(table, [sku_pdf |-> sku_pdf, sku_estoque |-> sku_pdf])

\* INSERT ... ON CONFLICT (sku_pdf) DO UPDATE: lines 1446-1455
Upsert(table, sku_pdf, sku_estoque) ==
  IF \E j \in 1..Len(table) : table[j].sku_pdf = sku_pdf
  THEN [j \in 1..Len(table) |->
          IF table[j].sku_pdf = sku_pdf
          THEN [table[j] EXCEPT !.sku_estoque = sku_estoque] ELSE table[j]]
  ELSE Append(table, [sku_pdf |-> sku_pdf, sku_estoque |-> sku_estoque])

\* line 1425 reading "quantidade", the quantity the scan extracted
RowQtd_extracted(r) == r.quantidade

\* line 1425: qtd = int(r.get("quantidade_corrigida", r.get("quantidade", 0)) or 0)
RowQtd(r) == r.quantidade_corrigida

\* one iteration of "for _, r in edited.iterrows()": lines 1423-1460.
\* mov_ok, map_ok: whether the write of the movement, of the mapping, succeeds
ApplyRow ==
  /\ pc = "applying"
  /\ row < Len(edited)
  /\ LET r == edited[row + 1]
         sku_pdf == sanitize_sku(r.sku_pdf)
         qtd == RowQtd(r)
         sku_est_sanit == sanitize_sku(r.sku)
         j == SanToOrig(snap, sku_est_sanit)
     IN IF sku_est_sanit = <<>>
        THEN /\ counters' = [counters EXCEPT !.faltando = @ + 1]
             /\ UNCHANGED <<movements, sku_mapping>>
        ELSE IF j = 0
        THEN /\ counters' = [counters EXCEPT !.erros = @ + 1]
             /\ UNCHANGED <<movements, sku_mapping>>
        ELSE \E mov_ok, map_ok \in BOOLEAN :
               LET sku_original == snap[j].sku
               IN IF ~mov_ok \/ VariantBySku(sku_original) = 0
                  THEN /\ counters' = [counters EXCEPT !.erros = @ + 1]
                       /\ UNCHANGED <<movements, sku_mapping>>
                  ELSE /\ movements' = record_movement(sku_original, 0 - Abs(qtd), "venda_pdf")
                       /\ IF grava_map /\ sku_pdf # <<>> /\ map_ok
                          THEN /\ sku_mapping' = Upsert(sku_mapping, sku_pdf, sku_original)
                               /\ counters' = [counters EXCEPT !.ok_count = @ + 1,
                                                               !.mapeados = @ + 1]
                          ELSE /\ UNCHANGED sku_mapping
                               /\ counters' = [counters EXCEPT !.ok_count = @ + 1]
  /\ row' = row + 1
  /\ UNCHANGED <<variants, parse, pc, msg, edited, confirm_high, grava_map, snap,
                 edits, commits, query>>

\* lines 1462-1465; a behaviour ends with the batch it applies
ApplyEnd ==
  /\ pc = "applying"
  /\ row = Len(edited)
  /\ pc' = "done"
  /\ msg' = "baixas_aplicadas"
  /\ UNCHANGED <<store, parse, edited, confirm_high, grava_map, snap, row, counters,
                 edits, commits, query>>

(***************************************************************************)
(* Specifications                                                          *)
(***************************************************************************)
\* the documents of the commit workflow
CommitDocs ==
  { <<CAM_GG \o <<"5">>>>,
    <<CAM_GG \o <<"5">>, CAM_M \o <<"1","5","0">>>>,
    <<SHORT_P, <<"3">>, CAM_GG \o <<"9","9">>>> }

Init ==
  /\ InitStore(Catalogs(SkuPool \ {S_CAMPRETO_GG}, MaxVariants),
               MapTables({S_CAM_GG, S_CAM_GG_title}, MaxMappings))
  /\ InitSession

Next ==
  \/ Upload(CommitDocs, {TRUE})
  \/ UploadUnreadable
  \/ ScanStep
  \/ ScanRaises
  \/ ParseReturn
  \/ EditQty
  \/ EditSku
  \/ DeleteRow
  \/ ToggleConfirmHigh
  \/ ToggleGravaMap
  \/ Simular
  \/ Aplicar
  \/ ApplyRow
  \/ ApplyEnd

Spec == Init /\ [][Next]_vars

\* the parser alone, over every document of ParseDocs
ParseStores == { <<[sku_pdf |-> S_SHORT_P, sku_estoque |-> S_SHORT_P]>> }

InitParse ==
  /\ InitStore({<<[id |-> 1, sku |-> S_CAM_GG]>>}, ParseStores)
  /\ InitSession

NextParse ==
  \/ Upload(ParseDocs, {TRUE})
  \/ UploadUnreadable
  \/ ScanStep
  \/ ScanRaises
  \/ ParseReturn

SpecParse == InitParse /\ [][NextParse]_vars


(***************************************************************************)
(* The resolver alone: one call of get_sku_mapping, and the "sku" and      *)
(* "mapeado" the scan derives from it, against a store that does not move  *)
(***************************************************************************)
\* a mapping target whose variant was renamed or removed afterwards
S_STALE == <<"C","A","M","-","P","R","E","T","O","-","G">>

\* the texts the resolver is asked about
QuerySkus == { CAM_GG, S_CAMPRETO_GG, <<"C","A","M","P","R","E","T","O","G","G">>, SHORT_P, MOL_M }

InitResolve ==
  /\ InitStore(Catalogs(SkuPool, MaxVariants), MapTables(SkuPool \cup {S_STALE}, MaxMappings))
  /\ InitSession

\* lines 955-962 for the token sku_n; map_ok, var_ok: whether the two reads succeed
Resolve ==
  /\ pc = "idle"
  /\ \E sku_n \in QuerySkus, map_ok, var_ok \in BOOLEAN :
       LET db == ReadStore(TRUE)
           r == ResolveFact(sku_n,
                            [ok |-> map_ok, rows |-> IF map_ok THEN db.map_read.rows ELSE <<>>],
                            [ok |-> var_ok, rows |-> IF var_ok THEN db.var_read.rows ELSE <<>>])
       IN query' = [sku_pdf |-> sku_n, map_ok |-> map_ok, var_ok |-> var_ok,
                    sku |-> r.sku, mapeado |-> r.mapeado, asked |-> TRUE]
  /\ UNCHANGED <<store, parse, pc, msg, session>>

NextResolve == Resolve

SpecResolve == InitResolve /\ [][NextResolve]_vars

\* the resolver against any table the schema allows: sku_estoque is NOT NULL
\* (lines 128-133), so a target may be the empty text
InitTotal ==
  /\ InitStore(Catalogs(SkuPool, MaxVariants),
               MapTables({S_CAM_GG_title, S_STALE, <<>>}, MaxMappings))
  /\ InitSession

SpecTotal == InitTotal /\ [][NextResolve]_vars

(***************************************************************************)
(* The page run again and again: a file is parsed, the uploader is         *)
(* cleared, the store changes through a batch or through the other pages,  *)
(* another file (or the same) is parsed                                    *)
(***************************************************************************)
\* batches applied in one behaviour of SpecRerun
MaxBatches == 1

RerunDocs ==
  { <<CAM_GG \o <<"5">>>>,
    <<CAM_GG \o <<"5">>, CAM_GG \o <<"5">>>>,
    <<SHORT_P, <<"3">>>>,
    <<SHORT_P>>,                  \* leaves a token pending at the end
    <<<<"3">>>> }

RerunCatalogs == Catalogs({S_CAM_GG}, MaxVariants)

RerunTables == MapTables({S_CAM_GG}, MaxMappings)

\* lines 1261-1262: the uploader is cleared ("up is None"); the table and the
\* checkboxes are not rendered any more and lose what the operator entered
ClearUpload ==
  /\ pc \in {"nothing", "preview", "done"}
  /\ pc' = "idle"
  /\ msg' = "none"
  /\ edited' = <<>>
  /\ confirm_high' = FALSE
  /\ grava_map' = TRUE
  /\ snap' = <<>>
  /\ row' = 0
  /\ counters' = NoCounters
  /\ UNCHANGED <<store, parse, edits, commits, query>>

\* between two uploads the other pages change the catalog (create_variant,
\* update_variant, delete_variant) and the mapping table (lines 1650-1690)
StoreChange ==
  /\ pc = "idle"
  /\ variants' \in RerunCatalogs
  /\ sku_mapping' \in RerunTables
  /\ <<variants', sku_mapping'>> # <<variants, sku_mapping>>
  /\ UNCHANGED <<movements, parse, pc, msg, session, query>>

InitRerun ==
  /\ InitStore(RerunCatalogs, RerunTables)
  /\ InitSession

NextRerun ==
  \/ Upload(RerunDocs, BOOLEAN)
  \/ UploadUnreadable
  \/ ScanStep
  \/ ScanRaises
  \/ ParseReturn
  \/ ClearUpload
  \/ StoreChange
  \/ (commits < MaxBatches /\ Aplicar)
  \/ ApplyRow
  \/ ApplyEnd

SpecRerun == InitRerun /\ [][NextRerun]_vars


(***************************************************************************)
(* Claims about the page "Baixa por PDF" (specification Spec)              *)
(***************************************************************************)
\* the "venda_pdf" movements recorded so far
Vendas == SelectSeq(movements, LAMBDA m : m.reason = "venda_pdf")

\* some row of the batch has a used quantity above 99
HighRow == \E k \in 1..Len(edited) : Max(edited[k].quantidade_corrigida, 0) > 99

\* some row of the batch has a corrected quantity of 0 or less
InvalidRow == \E k \in 1..Len(edited) : edited[k].quantidade_corrigida <= 0

\* C1: while a batch on the preview has a row whose used quantity is above 99
\* and the confirmation is not given, no step (pressing "Aplicar baixas"
\* included) records a movement, writes a mapping or starts the loop over the
\* rows, whatever the other rows hold; and while no row is above 99 (99
\* itself included) the high-quantity error is never reported.
C1_HighQuantityGate ==
  [][ pc = "preview" =>
        /\ (HighRow /\ ~confirm_high) =>
              /\ movements' = movements
              /\ sku_mapping' = sku_mapping
              /\ pc' # "applying"
        /\ ~HighRow => msg' # "erro_qtd_alta" ]_vars

\* "Aplicar baixas" was pressed on a batch with a row above 99 and a row of 99
\* or less, unconfirmed: the error is shown and nothing was recorded
C1_Witness ==
  /\ pc = "preview"
  /\ msg = "erro_qtd_alta"
  /\ ~confirm_high
  /\ \E k \in 1..Len(edited) : edited[k].quantidade_corrigida > 99
  /\ \E k \in 1..Len(edited) : edited[k].quantidade_corrigida \in 1..99
  /\ Vendas = <<>>

\* C2: while some row of the batch has a corrected quantity <= 0, no step
\* (pressing "Aplicar baixas" included) records a movement, writes a mapping
\* or starts the loop over the rows; so every row of a batch being applied has
\* a corrected quantity above 0.
C2_InvalidQuantityBlocksBatch ==
  /\ [](pc = "applying" => ~InvalidRow)
  /\ [][ (pc = "preview" /\ InvalidRow) =>
           /\ movements' = movements
           /\ sku_mapping' = sku_mapping
           /\ pc' # "applying" ]_vars

\* "Aplicar baixas" was pressed on a batch with an invalid row and a valid row
\* whose SKU is in the catalog: the error is shown and nothing was recorded
C2_Witness ==
  /\ pc = "preview"
  /\ msg = "erro_qtd_invalida"
  /\ \E k \in 1..Len(edited) : edited[k].quantidade_corrigida <= 0
  /\ \E k \in 1..Len(edited) :
       /\ edited[k].quantidade_corrigida > 0
       /\ SanToOrig(stock_df, sanitize_sku(edited[k].sku)) # 0
  /\ Vendas = <<>>


\* the variants the text t of a row's SKU field names: the variant whose SKU is
\* t, and when there is none the variants whose sanitized SKU is t sanitized
NamedVariants(t) ==
  LET exact == { variants[j].id : j \in { i \in 1..Len(variants) : variants[i].sku = t } }
      same == { variants[j].id :
                  j \in { i \in 1..Len(variants) :
                            sanitize_sku(variants[i].sku) = sanitize_sku(t) } }
  IN IF exact # {} THEN exact ELSE same

\* C3: every step that changes the movements is a step of the commit loop that
\* appends one movement, for a row whose sanitized SKU field is not empty and
\* names a variant of the catalog, and the movement is recorded on the variant
\* the row names.
C3_MovementOnNamedVariant ==
  [][ movements' # movements =>
        /\ pc = "applying"
        /\ row < Len(edited)
        /\ Len(movements') = Len(movements) + 1
        /\ SubSeq(movements', 1, Len(movements)) = movements
        /\ sanitize_sku(edited[row + 1].sku) # <<>>
        /\ NamedVariants(edited[row + 1].sku) # {}
        /\ movements'[Len(movements')].variant_id \in NamedVariants(edited[row + 1].sku) ]_vars


(***************************************************************************)
(* Claims about processar_pdf_vendas (specification SpecParse)             *)
(***************************************************************************)
\* C4: every fact of the list a parse builds has a quantity from 1 to 999.
C4_QuantityBound ==
  \A k \in 1..Len(movimentos) :
     movimentos[k].quantidade >= 1 /\ movimentos[k].quantidade <= 999

\* the length of the longest prefix of s that ends with a letter
LetterEnd(s) ==
  LET ends == { k \in 1..Len(s) : s[k] \in AZ }
  IN IF ends = {} THEN 0 ELSE CHOOSE k \in ends : \A h \in ends : h <= k

\* ln is a complete SKU-grammar token ending with a letter size, immediately
\* followed by 1 to 3 digits and nothing else
FusedLine(ln) ==
  LET e == LetterEnd(ln)
  IN /\ e > 0
     /\ FullMatch(TOKEN, Slice(ln, 0, e))
     /\ FullMatch(D13, Slice(ln, e, Len(ln)))

\* C5: once a line made of a complete SKU token and 1 to 3 fused digits has
\* been scanned, the list holds a fact whose sku_pdf is the whole token, no
\* character removed, and whose quantity is the number the digits write.
C5_SkuTextPreserved ==
  \A j \in 1..idx :
     FusedLine(merged[j]) =>
       \E k \in 1..Len(movimentos) :
          /\ movimentos[k].sku_pdf = Slice(merged[j], 0, LetterEnd(merged[j]))
          /\ movimentos[k].quantidade =
               int(Slice(merged[j], LetterEnd(merged[j]), Len(merged[j])))


\* the (sku_pdf, quantidade) pair of a fact
PairOf(m) == <<m.sku_pdf, m.quantidade>>

\* C6: no two facts of the list a parse builds have the same (sku_pdf,
\* quantidade) pair, the pairs seen are exactly the pairs of the facts, and the
\* scan only appends to the list, so a pair keeps the place of its first
\* occurrence however often and through whichever path it comes again.
C6_Dedup ==
  /\ [](/\ \A a, b \in 1..Len(movimentos) :
             a # b => PairOf(movimentos[a]) # PairOf(movimentos[b])
        /\ vistos = { PairOf(movimentos[k]) : k \in 1..Len(movimentos) })
  /\ [][ (pc = "scan" /\ pc' = "scan") =>
           /\ Len(movimentos') >= Len(movimentos)
           /\ SubSeq(movimentos', 1, Len(movimentos)) = movimentos ]_vars

\* a document in which CAM-PRETO-GG with quantity 5 comes three times, twice
\* on one line and once more in another spelling, was scanned into one fact
C6_Witness ==
  /\ pc = "scan"
  /\ Len(merged) = 2
  /\ idx = 2
  /\ merged[1] = CAM_GG \o <<"5",",">> \o CAM_GG \o <<"5">>
  /\ merged[2] # CAM_GG \o <<"5">>
  /\ norm(merged[2]) = CAM_GG \o <<"5">>
  /\ Len(movimentos) = 1
  /\ PairOf(movimentos[1]) = <<CAM_GG, 5>>

\* the facts of ms whose pair is p
FactsOf(ms, p) == { k \in 1..Len(ms) : PairOf(ms[k]) = p }

\* C7: the scan of a line made only of 1 to 3 digits, (a) when a bare token is
\* pending, empties the pending slot and leaves in the list exactly one fact
\* (that token, those digits), appending at most that one fact; (b) when the
\* slot is empty, which it is after a resolution, emits nothing and leaves the
\* slot empty.
C7_CarryOver ==
  [][ (pc = "scan" /\ idx < Len(merged) /\ idx' = idx + 1
         /\ FullMatch(D13, merged[idx + 1])) =>
        IF pending_sku # <<>>
        THEN LET p == <<norm(pending_sku), int(merged[idx + 1])>>
             IN /\ pending_sku' = <<>>
                /\ Cardinality(FactsOf(movimentos', p)) = 1
                /\ Len(movimentos') <= Len(movimentos) + 1
                /\ SubSeq(movimentos', 1, Len(movimentos)) = movimentos
                /\ Len(movimentos') = Len(movimentos) + 1 =>
                     PairOf(movimentos'[Len(movimentos')]) = p
        ELSE /\ movimentos' = movimentos
             /\ pending_sku' = <<>> ]_vars

\* SHORT-AZUL-P alone on a line and then "3": one fact (SHORT-AZUL-P, 3) and
\* an empty pending slot
C7_Witness ==
  /\ pc = "scan"
  /\ merged = <<SHORT_P, <<"3">>>>
  /\ idx = 2
  /\ pending_sku = <<>>
  /\ Len(movimentos) = 1
  /\ PairOf(movimentos[1]) = <<SHORT_P, 3>>


(***************************************************************************)
(* Claims about get_sku_mapping (specification SpecResolve)                *)
(***************************************************************************)
\* the entries of the mapping table whose sanitized key is that of the text t
EntriesFor(t) ==
  { j \in 1..Len(sku_mapping) : sanitize_sku(sku_mapping[j].sku_pdf) = sanitize_sku(t) }

\* the variants whose SKU has the alphanumeric key of the text t
SameKey(t) ==
  { j \in 1..Len(variants) : normalize_key(variants[j].sku) = normalize_key(t) }

\* both reads of the last call returned the rows of their table
ReadsOk == query.asked /\ query.map_ok /\ query.var_ok

C9_DirectMatchUnmapped ==
  (ReadsOk /\ EntriesFor(query.sku_pdf) = {} /\ Cardinality(SameKey(query.sku_pdf)) = 1) =>
     /\ \A v \in SameKey(query.sku_pdf) : query.sku = variants[v].sku
     /\ query.mapeado = FALSE

\* C10: when the mapping table has no entry for sku_pdf and two or more SKUs
\* of the catalog have the alphanumeric key of sku_pdf, the fact carries
\* sku_pdf itself and mapeado = FALSE.
C10_AmbiguousMatchUnresolved ==
  (ReadsOk /\ EntriesFor(query.sku_pdf) = {} /\ Cardinality(SameKey(query.sku_pdf)) >= 2) =>
     /\ query.sku = query.sku_pdf
     /\ query.mapeado = FALSE

(***************************************************************************)
(* Claims about the resolved SKU of a fact (specification SpecTotal)       *)
(***************************************************************************)
\* the mapping table, read by the call, has an entry for the key of sku_pdf
\* with a target that is not the empty text
MappingYields ==
  /\ query.map_ok
  /\ \E j \in EntriesFor(query.sku_pdf) : sku_mapping[j].sku_estoque # <<>>

\* the catalog, read by the call, has a SKU with the alphanumeric key of sku_pdf
CatalogYields == query.var_ok /\ SameKey(query.sku_pdf) # {}

\* C11: the fact of every call carries a "sku" that is not the empty text, and
\* that is sku_pdf itself whenever neither the mapping table nor the catalog
\* yields a match: the table or the catalog is empty, has no entry for the
\* key, the entry's target is empty, or a read fails.
C11_ResolutionTotality ==
  query.asked =>
     /\ query.sku # <<>>
     /\ (~MappingYields /\ ~CatalogYields) => query.sku = query.sku_pdf

\* the call found an entry whose target is the empty text, nothing else
\* matches, and the fact fell back to sku_pdf
C11_Witness ==
  /\ query.asked
  /\ query.map_ok
  /\ \E j \in EntriesFor(query.sku_pdf) : sku_mapping[j].sku_estoque = <<>>
  /\ ~CatalogYields
  /\ query.sku = query.sku_pdf
  /\ query.mapeado = FALSE

(***************************************************************************)
(* Claims about the preview table (specification Spec)                     *)
(***************************************************************************)
\* the rows of the snapshot the text t of a row's SKU field names: the row
\* whose SKU is t, and when there is none the rows whose sanitized SKU is t
\* sanitized
NamedRows(t) ==
  LET exact == { j \in 1..Len(snap) : snap[j].sku = t }
      same == { j \in 1..Len(snap) : sanitize_sku(snap[j].sku) = sanitize_sku(t) }
  IN IF exact # {} THEN exact ELSE same

\* C12: on the preview, every row's "Estoque atual (antes)" is the stock the
\* snapshot holds for the SKU the row's SKU field names, 0 when it names no SKU
\* of the catalog, and its "Estoque apos (simulado)" is that stock minus the
\* used quantity, whatever its status and its high-quantity flag.
C12_SimulationArithmetic ==
  pc = "preview" =>
    \A k \in 1..Len(preview) :
       /\ NamedRows(edited[k].sku) = {} => preview[k].antes = 0
       /\ NamedRows(edited[k].sku) # {} =>
            \E j \in NamedRows(edited[k].sku) : preview[k].antes = snap[j].estoque
       /\ preview[k].qtd_usada = Max(edited[k].quantidade_corrigida, 0)
       /\ preview[k].apos = preview[k].antes - preview[k].qtd_usada

\* the SKU field of the row sanitizes to the SKU of no row of the snapshot
AbsentFromCatalog(r) ==
  \A j \in 1..Len(snap) : sanitize_sku(snap[j].sku) # sanitize_sku(r.sku)

\* C13: on the preview, every row's status is "FICA NEGATIVO" exactly when its
\* simulated stock is below 0, "ZERA ESTOQUE" exactly when it is 0 and "OK"
\* exactly when it is above 0; so a row whose SKU is absent from the catalog
\* and whose used quantity is above 0 shows "FICA NEGATIVO".
C13_StatusClassification ==
  pc = "preview" =>
    \A k \in 1..Len(edited) :
       LET p == preview[k]
       IN /\ p.status \in {"FICA NEGATIVO", "ZERA ESTOQUE", "OK"}
          /\ p.status = "FICA NEGATIVO" <=> p.apos < 0
          /\ p.status = "ZERA ESTOQUE" <=> p.apos = 0
          /\ p.status = "OK" <=> p.apos > 0
          /\ (AbsentFromCatalog(edited[k]) /\ p.qtd_usada > 0) =>
               p.status = "FICA NEGATIVO"

\* a preview with a row that brings its stock to exactly 0 and a row whose SKU
\* is absent from the catalog, shown as going negative
C13_Witness ==
  /\ pc = "preview"
  /\ \E k \in 1..Len(preview) :
       /\ preview[k].antes > 0
       /\ preview[k].apos = 0
       /\ preview[k].status = "ZERA ESTOQUE"
  /\ \E k \in 1..Len(preview) :
       /\ AbsentFromCatalog(edited[k])
       /\ preview[k].qtd_usada > 0
       /\ preview[k].status = "FICA NEGATIVO"

(***************************************************************************)
(* Claims about the loop of "Aplicar baixas" (specification Spec)          *)
(***************************************************************************)
\* C14: every step that changes the movements is a step of the commit loop
\* appending one movement whose reason is "venda_pdf" and whose quantity is
\* minus the corrected quantity of the row being applied, below 0; so never
\* minus the extracted quantity when the operator changed it.
C14_CorrectedQuantityWins ==
  [][ movements' # movements =>
        /\ pc = "applying"
        /\ row < Len(edited)
        /\ movements' = Append(movements, movements'[Len(movements')])
        /\ movements'[Len(movements')].reason = "venda_pdf"
        /\ movements'[Len(movements')].qty = 0 - edited[row + 1].quantidade_corrigida
        /\ movements'[Len(movements')].qty < 0 ]_vars

\* a batch was applied whose one row was extracted with 5 and corrected to
\* another quantity, and the movement recorded carries the corrected one
C14_Witness ==
  /\ pc = "done"
  /\ Len(edited) = 1
  /\ edited[1].quantidade = 5
  /\ edited[1].quantidade_corrigida # 5
  /\ Len(Vendas) = 1
  /\ Vendas[1].qty = 0 - edited[1].quantidade_corrigida

\* the step writes the mapping table or counts a saved mapping
MapWritten ==
  \/ sku_mapping' # sku_mapping
  \/ pc = "applying" /\ counters'.mapeados # counters.mapeados

\* the SKU of the variant a movement is recorded on
SkuOfMovement(m) ==
  { variants[v].sku : v \in { i \in 1..Len(variants) : variants[i].id = m.variant_id } }

\* C15: every step that writes the mapping table is a step of the commit loop
\* taken with the option "Salvar/atualizar mapeamentos" on; the same step
\* records the movement of its row and counts the row as applied, not as
\* missing or failed; and the table changes in no entry except the one whose
\* key is the row's sanitized sku_pdf, whose target becomes the SKU of the
\* variant that received the movement.
C15_MappingWriteOrdering ==
  [][ MapWritten =>
        /\ pc = "applying"
        /\ row < Len(edited)
        /\ row' = row + 1
        /\ grava_map
        /\ movements' = Append(movements, movements'[Len(movements')])
        /\ counters' = [counters EXCEPT !.ok_count = @ + 1, !.mapeados = @ + 1]
        /\ \E j \in 1..Len(sku_mapping') :
              /\ sku_mapping'[j].sku_pdf = sanitize_sku(edited[row + 1].sku_pdf)
              /\ sku_mapping'[j].sku_estoque \in SkuOfMovement(movements'[Len(movements')])
              /\ \A i \in 1..Len(sku_mapping') :
                    i # j => (i <= Len(sku_mapping) /\ sku_mapping'[i] = sku_mapping[i])
              /\ Len(sku_mapping') >= Len(sku_mapping) ]_vars

\* a two-row batch was applied with the option on: one row was recorded on
\* CAM-Preto-GG and left the mapping CAM-PRETO-GG -> CAM-Preto-GG, the other
\* row was not applied and left nothing
C15_Witness ==
  /\ pc = "done"
  /\ grava_map
  /\ Len(edited) = 2
  /\ counters.ok_count = 1
  /\ counters.mapeados = 1
  /\ Len(Vendas) = 1
  /\ Len(sku_mapping) = 1
  /\ sku_mapping[1].sku_pdf = S_CAM_GG
  /\ sku_mapping[1].sku_estoque = S_CAM_GG_title
  /\ S_CAM_GG_title \in SkuOfMovement(Vendas[1])

\* the step is one iteration of the loop over the rows
LoopStep == pc = "applying" /\ row < Len(edited) /\ row' = row + 1

\* the SKU field of the row is filled and names a SKU of the catalog as read
Resolvable(r) == sanitize_sku(r.sku) # <<>> /\ ~AbsentFromCatalog(r)

\* line 1443 for the row r: the mapping of the row is to be saved
MapWanted(r) == grava_map /\ sanitize_sku(r.sku_pdf) # <<>>

\* every row of the batch was handled and counted once
AllRowsCounted ==
  /\ row = Len(edited)
  /\ counters.ok_count + counters.erros + counters.faltando = Len(edited)

\* C16: in the iteration for a row that names a SKU of the catalog, when a
\* write to the store fails, the movement insert (no movement is recorded) or
\* the mapping upsert (the mapping to be saved is not saved), the row is
\* counted in erros; the movements recorded before stay, and the loop goes on
\* to the next row.
C16_StoreFailureCountsAsError ==
  [][ (LoopStep /\ Resolvable(edited[row + 1])) =>
        /\ SubSeq(movements', 1, Len(movements)) = movements
        /\ pc' = "applying"
        /\ (\/ movements' = movements
            \/ MapWanted(edited[row + 1]) /\ ~MapWritten) =>
             counters'.erros = counters.erros + 1 ]_vars

\* C16 as the code has it: a failed movement insert counts the row in erros
\* and writes nothing; a failed mapping upsert leaves the row counted as
\* applied (ok_count), only the count of saved mappings stays behind; in both
\* cases the movements recorded before stay, the loop goes on, and at its end
\* every row has been counted once.
C16_StoreFailureAmended ==
  /\ [][ (LoopStep /\ Resolvable(edited[row + 1])) =>
           /\ SubSeq(movements', 1, Len(movements)) = movements
           /\ pc' = "applying"
           /\ movements' = movements =>
                /\ counters' = [counters EXCEPT !.erros = @ + 1]
                /\ sku_mapping' = sku_mapping
           /\ (movements' # movements /\ MapWanted(edited[row + 1]) /\ ~MapWritten) =>
                counters' = [counters EXCEPT !.ok_count = @ + 1] ]_vars
  /\ [](pc = "done" => AllRowsCounted)

\* a batch of two rows naming SKUs of the catalog was applied with the option
\* to save mappings on: the movement of one row failed, the other row was
\* recorded while its mapping failed
C16_Witness ==
  /\ pc = "done"
  /\ grava_map
  /\ Len(edited) = 2
  /\ \A k \in 1..2 : Resolvable(edited[k])
  /\ counters = [ok_count |-> 1, mapeados |-> 0, erros |-> 1, faltando |-> 0]
  /\ Len(Vendas) = 1

\* C17: in the iteration for a row whose SKU field names no SKU of the
\* catalog, the row is counted in faltando ("skipped") and not in erros,
\* nothing is written, and the loop goes on to the next row.
C17_UnresolvedCountedSkipped ==
  [][ (LoopStep /\ AbsentFromCatalog(edited[row + 1])) =>
        /\ counters' = [counters EXCEPT !.faltando = @ + 1]
        /\ movements' = movements
        /\ sku_mapping' = sku_mapping
        /\ pc' = "applying" ]_vars

\* C17 as the code has it: a row whose SKU field is empty is counted in
\* faltando, a row whose SKU field is filled but names no SKU of the catalog
\* is counted in erros; either way nothing is written, the loop goes on to
\* the next row, and at its end every row has been counted once.
C17_UnresolvedAmended ==
  /\ [][ (LoopStep /\ AbsentFromCatalog(edited[row + 1])) =>
           /\ counters' = IF sanitize_sku(edited[row + 1].sku) = <<>>
                          THEN [counters EXCEPT !.faltando = @ + 1]
                          ELSE [counters EXCEPT !.erros = @ + 1]
           /\ movements' = movements
           /\ sku_mapping' = sku_mapping
           /\ pc' = "applying" ]_vars
  /\ [](pc = "done" => AllRowsCounted)

\* a batch of two rows was applied: the first names no SKU of the catalog and
\* was counted in erros, the second was recorded after it
C17_Witness ==
  /\ pc = "done"
  /\ Len(edited) = 2
  /\ sanitize_sku(edited[1].sku) # <<>>
  /\ AbsentFromCatalog(edited[1])
  /\ Resolvable(edited[2])
  /\ counters.erros = 1
  /\ counters.faltando = 0
  /\ counters.ok_count = 1
  /\ Len(Vendas) = 1

(***************************************************************************)
(* Claims about what writes to the store (specification Spec)              *)
(***************************************************************************)
\* C18: up to the start of the loop of "Aplicar baixas" (upload, scan with its
\* resolutions, preview, edits of the table, the checkboxes, "Simular baixa",
\* a press of "Aplicar baixas" that the checks stop) the movements are those
\* the behaviour started with; and no step except an iteration of that loop
\* changes the movements, the stock of a SKU, the catalog or the mapping table.
C18_PureProjection ==
  /\ [](pc \in {"idle", "scan", "nothing", "preview"} =>
          movements = StockMovements(Len(variants)))
  /\ [][ ~(pc = "applying" /\ row < Len(edited)) =>
           /\ movements' = movements
           /\ stock_df' = stock_df
           /\ variants' = variants
           /\ sku_mapping' = sku_mapping ]_vars

\* "Simular baixa" was pressed on a preview with a row that a mapping
\* resolved to a SKU of the catalog, and the movements are the initial ones
C18_Witness ==
  /\ pc = "preview"
  /\ msg = "simulacao"
  /\ \E k \in 1..Len(edited) : edited[k].mapeado /\ Resolvable(edited[k])
  /\ snap = stock_df
  /\ movements = StockMovements(Len(variants))

(***************************************************************************)
(* Claims about successive parses (specification SpecRerun)                *)
(***************************************************************************)
\* the (sku_pdf, quantidade) pairs of a list of facts, in order
PairsOf(ms) == [k \in 1..Len(ms) |-> PairOf(ms[k])]

RECURSIVE ScanAll(_, _, _)
ScanAll(st, ms, db) ==
  IF ms = <<>> THEN st ELSE ScanAll(ScanLine(st, Head(ms), db), Tail(ms), db)

\* the pairs the scan of the lines d gives when it starts from empty lists and
\* an empty pending slot and no read of the store succeeds
FreshPairs(d) ==
  PairsOf(ScanAll([movimentos |-> <<>>, vistos |-> {}, pending_sku |-> <<>>, last_end |-> 0],
                  merged_of(d), ReadStore(FALSE)).movimentos)

\* C19: whenever the scan of a document has reached its end, the ordered list
\* of (sku_pdf, quantidade) pairs is the one a fresh scan of the same lines
\* gives, so it is the same in every run on these lines whatever was parsed,
\* applied or changed in the store before; and every upload starts the scan
\* with an empty list, an empty set of seen pairs and an empty pending slot.
C19_RunToRunDeterminism ==
  /\ []((pc = "scan" /\ idx = Len(merged)) => PairsOf(movimentos) = FreshPairs(lines))
  /\ [][ (pc = "idle" /\ pc' = "scan") =>
           /\ movimentos' = <<>>
           /\ vistos' = {}
           /\ pending_sku' = <<>> ]_vars

\* after the fact (CAM-PRETO-GG, 5) was applied as a batch (a movement of -5
\* is recorded), the document with this line was scanned to its end and gave
\* the same fact
C19_Witness ==
  /\ pc = "scan"
  /\ idx = Len(merged)
  /\ commits >= 1
  /\ \E k \in 1..Len(Vendas) : Vendas[k].qty = 0 - 5
  /\ lines = <<CAM_GG \o <<"5">>>>
  /\ PairsOf(movimentos) = <<<<CAM_GG, 5>>>>

(***************************************************************************)
(* Claims about what a parse returns (specification SpecParse)             *)
(***************************************************************************)
\* C20: every value processar_pdf_vendas returns has ok = TRUE exactly when
\* its list of facts is not empty, and carries a message; the call that ends
\* the scan returns either ok = TRUE with the whole list of the scan, reached
\* only at the end of the lines, or ok = FALSE with an empty list, which is
\* what it returns when the scan found nothing and when a step raised,
\* whatever the scan had found by then; and a file that cannot be read
\* returns ok = FALSE with an empty list too.
C20_NothingRecognizedIsValue ==
  /\ [](result.msg # "none" => (result.ok <=> result.movimentos # <<>>))
  /\ [][ (pc \in {"idle", "scan"} /\ pc' \notin {"idle", "scan"}) =>
           /\ result'.msg # "none"
           /\ pc' = IF result'.ok THEN "preview" ELSE "nothing"
           /\ result'.ok =>
                /\ pc = "scan"
                /\ idx = Len(merged)
                /\ result'.movimentos = movimentos
           /\ (pc = "scan" /\ idx = Len(merged) /\ movimentos = <<>>) => ~result'.ok ]_vars

\* a step of the scan raised after a fact had been found: the call returned
\* ok = FALSE and an empty list
C20_Witness ==
  /\ pc = "nothing"
  /\ movimentos # <<>>
  /\ idx < Len(merged)
  /\ result = [ok |-> FALSE, movimentos |-> <<>>, msg |-> "erro_ao_processar"]

(***************************************************************************)
(* Two sessions of the page "Baixa por PDF" on one store (specification    *)
(* SpecConcurrent): every browser session runs the script on its own, and  *)
(* the sessions share the tables only                                      *)
(***************************************************************************)
\* movements other sessions record in one behaviour of SpecConcurrent
MaxOtherCommits == 1

\* another session reaches line 1440 for a row of its own batch: it records a
\* "venda_pdf" movement on a variant of the catalog.  Nothing of this session
\* changes: its snapshot (line 1306) and its rows stay as they are.
OtherSessionCommit ==
  /\ pc \in {"preview", "applying"}
  /\ Len(SelectSeq(movements, LAMBDA m : m.reason = "venda_pdf")) - counters.ok_count
       < MaxOtherCommits
  /\ \E v \in 1..Len(variants), q \in {1, 5} :
       movements' = record_movement(variants[v].sku, 0 - q, "venda_pdf")
  /\ UNCHANGED <<variants, sku_mapping, parse, pc, msg, session, query>>

NextConcurrent ==
  \/ Upload(CommitDocs, {TRUE})
  \/ ScanStep
  \/ ParseReturn
  \/ Aplicar
  \/ ApplyRow
  \/ ApplyEnd
  \/ OtherSessionCommit

SpecConcurrent == Init /\ [][NextConcurrent]_vars

\* C21: when this session's loop records the movement of a row, and no earlier
\* row of its batch has the same sanitized SKU, the stock of the variant the
\* movement is recorded on is, at that moment, the stock this run read for it
\* (its "Estoque atual (antes)"): no movement of another session came between
\* the read and the commit.
C21_CommitsSerializedPerSku ==
  [][ (row' = row + 1 /\ movements' # movements) =>
        LET r == edited[row + 1]
            j == SanToOrig(snap, sanitize_sku(r.sku))
            vid == movements'[Len(movements')].variant_id
        IN (\A k \in 1..row : sanitize_sku(edited[k].sku) # sanitize_sku(r.sku))
             => SumQty(movements, vid) = snap[j].estoque ]_vars

(***************************************************************************)
(* Claims about the pending token (specification SpecParse)                *)
(***************************************************************************)
\* lines 921-923: the line as the scan compacts it
CompactOf(ln) ==
  Sub(preface_size_after_comma, <<",">>, Sub(preface_size_start, <<>>, norm(ln)))

\* the last match sku_pattern.finditer yields, from the match m on
RECURSIVE LastMatchFrom(_, _, _)
LastMatchFrom(compact, m, prev) ==
  IF ~m.ok THEN prev
  ELSE LastMatchFrom(compact, SearchGroups(sku_pattern, compact, m.ends[2]), m)

\* the last match of the SKU grammar on the compacted line; ok = FALSE when
\* the line has none
LastMatch(compact) == LastMatchFrom(compact, SearchGroups(sku_pattern, compact, 0), NoGroups)

\* the token and the quantity digits of the match m after the size split
SplitOf(compact, m) ==
  SplitSize(Slice(compact, m.start, m.ends[1]),
            IF End2(m) = -1 THEN <<>> ELSE Slice(compact, m.ends[1], m.ends[2]))

\* the last match of the line carries a quantity of its own
LastHasQty(compact) ==
  LastMatch(compact).ok /\ SplitOf(compact, LastMatch(compact)).qty_str # <<>>

\* the last match of the line is a bare SKU token
LastIsBare(compact) ==
  LastMatch(compact).ok /\ SplitOf(compact, LastMatch(compact)).qty_str = <<>>

\* the remainder of the line past its last match
TailOf(compact) ==
  Slice(compact, IF LastMatch(compact).ok THEN LastMatch(compact).ends[2] ELSE 0,
        Len(compact))

\* the remainder is 1 to 3 digits, optionally preceded by a size word
DigitsTail(compact) == FullMatch(Cat(<<Opt(SIZE), D13>>), TailOf(compact))

\* a step that scans one line while a token is pending
PendingStep == pc = "scan" /\ idx < Len(merged) /\ idx' = idx + 1 /\ pending_sku # <<>>

\* C22: a token that is pending when a line is scanned is still pending after
\* it, unless the line ends with a digits tail (which resolves it) or brings a
\* newer bare token (which replaces it): the slot is never left empty by a
\* line without a digits tail.
C22_PendingOnlyResolvedOrReplaced ==
  [][ PendingStep =>
        \/ pending_sku' # <<>>
        \/ DigitsTail(CompactOf(merged[idx + 1])) ]_vars

\* C22 as the scan has it: while a token is pending, a line without SKU match
\* and without digits tail leaves it pending; a line whose last SKU match is
\* bare and which has no digits tail leaves that newer token pending; a line
\* whose last SKU match carries its own quantity empties the slot, as does a
\* digits tail; and a line of digits scanned with the slot empty emits nothing.
C22_PendingClearedByQuantityMatch ==
  [][ (pc = "scan" /\ idx < Len(merged) /\ idx' = idx + 1) =>
        LET compact == CompactOf(merged[idx + 1])
        IN /\ (pending_sku # <<>> /\ ~LastMatch(compact).ok /\ ~DigitsTail(compact))
                => pending_sku' = pending_sku /\ movimentos' = movimentos
           /\ (pending_sku # <<>> /\ LastIsBare(compact) /\ ~DigitsTail(compact))
                => pending_sku' = SplitOf(compact, LastMatch(compact)).token_out
           /\ (pending_sku # <<>> /\ LastHasQty(compact)) => pending_sku' = <<>>
           /\ (pending_sku # <<>> /\ DigitsTail(compact)) => pending_sku' = <<>>
           /\ (pending_sku = <<>> /\ ~LastMatch(compact).ok)
                => pending_sku' = <<>> /\ movimentos' = movimentos ]_vars

\* SHORT-AZUL-P alone on a line, then CAM-PRETO-GG5: the only fact is
\* (CAM-PRETO-GG, 5) and the slot is empty
C22_Witness ==
  /\ pc = "scan"
  /\ merged = <<SHORT_P, CAM_GG \o <<"5">>>>
  /\ idx = 2
  /\ pending_sku = <<>>
  /\ Len(movimentos) = 1
  /\ PairOf(movimentos[1]) = <<CAM_GG, 5>>

CAM_PRE_TO_GG == <<"C","A","M","-","P","R","E","-","T","O","-","G","G">>

\* C24: no two facts of the list have the same quantity and SKU texts that are
\* equal once every character that is not a letter or a digit is removed.
C24_DedupKeyAlphanumeric ==
  \A a, b \in 1..Len(movimentos) :
     a # b => <<normalize_key(movimentos[a].sku_pdf), movimentos[a].quantidade>>
                # <<normalize_key(movimentos[b].sku_pdf), movimentos[b].quantidade>>

\* C24 as the scan has it: the key is the token as compacted (upper-cased,
\* whitespace removed, repeated hyphens collapsed), hyphens kept.  The scan of
\* a line made of a complete SKU token and 1 to 3 fused digits appends the
\* fact (token, digits) exactly when that pair was not seen, also when a pair
\* with the same letters and digits and another hyphenation was seen.
C24_DedupKeyKeepsHyphens ==
  [][ (pc = "scan" /\ idx < Len(merged) /\ idx' = idx + 1
         /\ FusedLine(CompactOf(merged[idx + 1]))) =>
        LET c == CompactOf(merged[idx + 1])
            p == <<Slice(c, 0, LetterEnd(c)), int(Slice(c, LetterEnd(c), Len(c)))>>
        IN IF p \in vistos
           THEN movimentos' = movimentos
           ELSE /\ Len(movimentos') = Len(movimentos) + 1
                /\ SubSeq(movimentos', 1, Len(movimentos)) = movimentos
                /\ PairOf(movimentos'[Len(movimentos')]) = p ]_vars

\* CAM-PRETO-GG5 and then CAM-PRE-TO-GG5: two facts with the same letters and
\* digits and the same quantity
C24_Witness ==
  /\ pc = "scan"
  /\ merged = <<CAM_GG \o <<"5">>, CAM_PRE_TO_GG \o <<"5">>>>
  /\ idx = 2
  /\ Len(movimentos) = 2
  /\ PairOf(movimentos[1]) = <<CAM_GG, 5>>
  /\ PairOf(movimentos[2]) = <<CAM_PRE_TO_GG, 5>>
  /\ normalize_key(CAM_GG) = normalize_key(CAM_PRE_TO_GG)

\* the position of the last hyphen of s, 0 when it has none
LastHyphen(s) ==
  LET hs == { k \in 1..Len(s) : s[k] = "-" }
  IN IF hs = {} THEN 0 ELSE CHOOSE k \in hs : \A h \in hs : h <= k

\* the size segment of the token c, and what comes before it
SizeSeg(c) == Slice(c, LastHyphen(c), Len(c))

Stem(c) == Slice(c, 0, LastHyphen(c))

\* the compacted line c is one SKU token with no quantity group whose size
\* segment is a number of n digits
NumericSizeLine(c, n) ==
  /\ FullMatch(TOKEN, c)
  /\ FullMatch(Rep(Set(Digits), n, n), SizeSeg(c))

\* the proper prefixes of the segment that are recognized sizes, by length
ValidPrefixes(seg) == { n \in 1..(Len(seg) - 1) : Slice(seg, 0, n) \in recognized_sizes }

\* C25: once a line made of one SKU token whose size segment is a 2- or
\* 3-digit number outside the recognized sizes has been scanned, the list holds
\* a fact whose SKU ends with the longest prefix of the segment that is a
\* recognized size and whose quantity is the number the remaining, rightmost
\* digits write (at least one digit).
C25_SplitLeavesValidSize ==
  \A j \in 1..idx :
     LET c == CompactOf(merged[j])
         seg == SizeSeg(c)
     IN ((NumericSizeLine(c, 2) \/ NumericSizeLine(c, 3)) /\ seg \notin recognized_sizes) =>
          \E n \in ValidPrefixes(seg), k \in 1..Len(movimentos) :
             /\ \A h \in ValidPrefixes(seg) : h <= n
             /\ movimentos[k].sku_pdf = Stem(c) \o Slice(seg, 0, n)
             /\ movimentos[k].quantidade = int(Slice(seg, n, Len(seg)))

\* C26: once a line made of one SKU token whose size segment is a 3-digit
\* number has been scanned, the list holds a fact whose SKU keeps the first two
\* digits as its size and whose quantity is the third digit.
C26_ThreeDigitFusedSize ==
  \A j \in 1..idx :
     LET c == CompactOf(merged[j])
         seg == SizeSeg(c)
     IN NumericSizeLine(c, 3) =>
          \E k \in 1..Len(movimentos) :
             /\ movimentos[k].sku_pdf = Stem(c) \o Slice(seg, 0, 2)
             /\ movimentos[k].quantidade = int(Slice(seg, 2, 3))

\* the matches sku_pattern.finditer yields on the compacted line, from m on
RECURSIVE MatchSetFrom(_, _)
MatchSetFrom(compact, m) ==
  IF ~m.ok THEN {}
  ELSE {m} \cup MatchSetFrom(compact, SearchGroups(sku_pattern, compact, m.ends[2]))

MatchSet(compact) == MatchSetFrom(compact, SearchGroups(sku_pattern, compact, 0))

\* where the quantity digits of the match end: the end of the quantity group,
\* or the end of the size segment the digits were split off
DigitsEnd(m) == IF End2(m) # -1 THEN m.ends[2] ELSE m.ends[1]

\* the quantity of the digits qty_str under the rule "cut to the first digit
\* exactly when the character directly after the digits is '/'"
QtyBySlashRule(compact, m, qty_str) ==
  IF DigitsEnd(m) < Len(compact) /\ compact[DigitsEnd(m) + 1] = "/"
  THEN int(<<qty_str[1]>>)
  ELSE int(qty_str)

\* C27: once a line has been scanned, for each of its matches that has
\* quantity digits (a quantity group, or digits split off the size segment)
\* the list holds the fact of that match with the quantity the digits write,
\* cut to the first digit exactly when the character directly after the digits
\* is '/', whatever the other characters of the line are.
C27_DateRuleImmediateSlash ==
  \A j \in 1..idx :
     LET c == CompactOf(merged[j])
     IN \A m \in MatchSet(c) :
          LET sp == SplitOf(c, m)
          IN sp.qty_str # <<>> =>
               \E k \in 1..Len(movimentos) :
                  PairOf(movimentos[k]) =
                    <<sp.token_out, QtyBySlashRule(c, m, sp.qty_str)>>

(***************************************************************************)
(* Claims about the hyphen-join (specification SpecParse)                  *)
(***************************************************************************)
\* the texts of ss written one after the other
RECURSIVE Concat(_)
Concat(ss) == IF ss = <<>> THEN <<>> ELSE Head(ss) \o Concat(Tail(ss))

\* the ways to cut n lines into g consecutive non-empty groups: the position
\* of the last line of every group
GroupEnds(n, g) ==
  { e \in [1..g -> 1..n] :
      /\ \A k \in 1..(g - 1) : e[k] < e[k + 1]
      /\ g > 0 => e[g] = n }

\* C28: when a document has been read, the lines the scan is given are the
\* kept lines cut into consecutive groups, each group concatenated: every kept
\* line is in exactly one group, in document order, the concatenation of all
\* the lines is unchanged, and no line but the last one ends with a hyphen.
C28_HyphenJoinGrouping ==
  (pc = "scan" /\ idx = 0) =>
    LET ks == kept(lines)
    IN /\ (merged = <<>>) = (ks = <<>>)
       /\ \E e \in GroupEnds(Len(ks), Len(merged)) :
            \A k \in 1..Len(merged) :
               merged[k] = Concat(SubSeq(ks, IF k = 1 THEN 1 ELSE e[k - 1] + 1, e[k]))
       /\ Concat(merged) = Concat(ks)
       /\ \A k \in 1..(Len(merged) - 1) : ~endswith_hyphen(merged[k])

\* "CAM-PRETO-" and "GG5" were joined into the one line "CAM-PRETO-GG5"
C28_Witness ==
  /\ pc = "scan"
  /\ idx = 0
  /\ lines = <<CAM \o <<"-">>, <<"G","G","5">>>>
  /\ merged = <<CAM_GG \o <<"5">>>>

(***************************************************************************)
(* The catalog pages and the mapping page (specification SpecCatalog):     *)
(* variants are created, renamed and removed, mappings are added, and a    *)
(* batch is applied with the mappings saved                                *)
(***************************************************************************)
\* str.lower()
lower(s) == [k \in 1..Len(s) |-> LowerChar(s[k])]

\* str.title(): a letter is upper-cased when it follows no letter, else lower-cased
title(s) ==
  [k \in 1..Len(s) |->
     IF k > 1 /\ UpperChar(s[k - 1]) \in AZ \cup ACC
     THEN LowerChar(s[k]) ELSE UpperChar(s[k])]

\* generate_sku: lines 256-261
generate_sku(sku_base, color, size) ==
  LET letters == AZ \cup az \cup Digits \cup ACC \cup Range(AccLowerSeq)
      cor == SelectSeq(strip(color), LAMBDA c : c \in letters \cup {" "})
      cor_limpa == SelectSeq(title(strip(cor)), LAMBDA c : c # " ")
      tamanho_limpo == SelectSeq(upper(strip(size)), LAMBDA c : c \in AZ \cup az \cup Digits)
      sku_base_limpo == SelectSeq(upper(strip(sku_base)), LAMBDA c : c # " ")
  IN sku_base_limpo \o <<"-">> \o cor_limpa \o <<"-">> \o tamanho_limpo

\* the SKUs of the catalog
CatalogSkus == { variants[j].sku : j \in 1..Len(variants) }

\* SERIAL / AUTOINCREMENT: an id above every id in use, up to MaxVariants + 1
NewIds ==
  { n \in 1..(MaxVariants + 1) : \A j \in 1..Len(variants) : variants[j].id < n }

\* create_variant, lines 335-394: the SKU is stored sanitized; the UNIQUE
\* constraint refuses a SKU the catalog has
CreateVariant ==
  /\ pc = "idle"
  /\ Len(variants) < MaxVariants
  /\ \E s \in SkuPool, n \in NewIds :
       /\ sanitize_sku(s) \notin CatalogSkus
       /\ variants' = Append(variants, [id |-> n, sku |-> sanitize_sku(s)])
  /\ UNCHANGED <<movements, sku_mapping, parse, pc, msg, session, query>>

\* update_variant, lines 444-501, with a new SKU: "Novo SKU" is stored as
\* typed; only the row of variants is written
UpdateVariant ==
  /\ pc = "idle"
  /\ \E j \in 1..Len(variants), new_sku \in SkuPool :
       /\ new_sku # variants[j].sku
       /\ new_sku \notin CatalogSkus
       /\ variants' = [variants EXCEPT ![j].sku = new_sku]
  /\ UNCHANGED <<movements, sku_mapping, parse, pc, msg, session, query>>

\* update_sku_base_bulk, lines 503-541, for the product whose variant
\* CAM-PRETO-GG has the colour "PRETO" and the size "GG": its SKU is generated
\* anew from the base typed; only the rows of variants are written
UpdateSkuBaseBulk ==
  /\ pc = "idle"
  /\ \E j \in 1..Len(variants) :
       /\ variants[j].sku = S_CAM_GG
       /\ \E new_sku \in { generate_sku(<<"c","a","m">>, <<"P","R","E","T","O">>, <<"G","G">>) } :
            /\ new_sku \notin CatalogSkus
            /\ variants' = [variants EXCEPT ![j].sku = new_sku]
  /\ UNCHANGED <<movements, sku_mapping, parse, pc, msg, session, query>>

\* delete_variant, lines 568-612: the mappings whose target is the SKU are
\* deleted, then the variant; its movements go with it where the store
\* enforces ON DELETE CASCADE and stay where it does not
DeleteVariant ==
  /\ pc = "idle"
  /\ \E j \in 1..Len(variants), cascade \in BOOLEAN :
       /\ sku_mapping' = SelectSeq(sku_mapping, LAMBDA e : e.sku_estoque # variants[j].sku)
       /\ variants' = SubSeq(variants, 1, j - 1) \o SubSeq(variants, j + 1, Len(variants))
       /\ movements' = IF cascade
                       THEN SelectSeq(movements, LAMBDA m : m.variant_id # variants[j].id)
                       ELSE movements
  /\ UNCHANGED <<parse, pc, msg, session, query>>

\* "Adicionar mapeamento manualmente", lines 1664-1690: the key is sanitized,
\* the target is chosen among the SKUs of the catalog
MappingUpsert ==
  /\ pc = "idle"
  /\ \E k \in MapKeys, j \in 1..Len(variants) :
       /\ (\E e \in 1..Len(sku_mapping) : sku_mapping[e].sku_pdf = sanitize_sku(k))
            \/ Len(sku_mapping) < MaxMappings
       /\ sku_mapping' = Upsert(sku_mapping, sanitize_sku(k), variants[j].sku)
       /\ sku_mapping' # sku_mapping
  /\ UNCHANGED <<variants, movements, parse, pc, msg, session, query>>

\* every entry of the mapping table points to a SKU of the catalog
TargetsValid ==
  \A e \in 1..Len(sku_mapping) : sku_mapping[e].sku_estoque \in CatalogSkus

InitCatalog ==
  /\ InitStore(Catalogs({S_CAM_GG, S_SHORT_P}, MaxVariants),
               MapTables({S_CAM_GG, S_SHORT_P}, MaxMappings))
  /\ TargetsValid
  /\ InitSession

NextCatalog ==
  \/ CreateVariant
  \/ UpdateVariant
  \/ UpdateSkuBaseBulk
  \/ DeleteVariant
  \/ MappingUpsert
  \/ Upload({<<CAM_GG \o <<"5">>>>}, {TRUE})
  \/ ScanStep
  \/ ParseReturn
  \/ (commits < MaxBatches /\ Aplicar)
  \/ ApplyRow
  \/ ApplyEnd
  \/ ClearUpload

SpecCatalog == InitCatalog /\ [][NextCatalog]_vars

\* C29: every entry of the mapping table points to a SKU that exists in the
\* catalog, whatever variants were created, renamed, regenerated or removed,
\* whatever mappings were added and whatever batch was applied.
C29_MappingTargetsValid == TargetsValid

(***************************************************************************)
(* Claims about the preview and the stock after a batch (specification     *)
(* Spec)                                                                   *)
(***************************************************************************)
\* the row of the snapshot the row r of the batch is committed on, 0 when none
TargetOf(r) == SanToOrig(snap, sanitize_sku(r.sku))

\* the rows of the batch committed on the row j of the snapshot
RowsOn(j) ==
  { k \in 1..Len(edited) : sanitize_sku(edited[k].sku) # <<>> /\ TargetOf(edited[k]) = j }

\* the sum of the corrected quantities of the rows K of the batch
RECURSIVE BatchQty(_)
BatchQty(K) ==
  IF K = {} THEN 0
  ELSE LET k == CHOOSE x \in K : TRUE
       IN edited[k].quantidade_corrigida + BatchQty(K \ {k})

\* a batch is finished in which no write of a movement failed: every row that
\* names a SKU of the catalog was applied
BatchDone ==
  /\ pc = "done"
  /\ counters.ok_count = Cardinality({ k \in 1..Len(edited) : Resolvable(edited[k]) })

\* C30: after a batch with no store failure, the stock of the variant every
\* committed row targets is the "Estoque apos (simulado)" the run showed on
\* that row.
C30_PreviewPredictsStock ==
  BatchDone =>
    \A k \in 1..Len(edited) :
       Resolvable(edited[k]) =>
         SumQty(movements, variants[TargetOf(edited[k])].id) = preview[k].apos

\* what the page does instead: every row is simulated against the same stock,
\* read before the batch.  After a batch with no store failure the stock of
\* every variant is the stock read minus the sum of the quantities of all the
\* rows committed on it, and it is the "Estoque apos (simulado)" of a row that
\* is the only one committed on its variant.
StockIsSnapshotMinusBatch ==
  BatchDone =>
    /\ \A j \in 1..Len(snap) :
         SumQty(movements, variants[j].id) = snap[j].estoque - BatchQty(RowsOn(j))
    /\ \A k \in 1..Len(edited) :
         Resolvable(edited[k]) =>
           /\ preview[k].antes = snap[TargetOf(edited[k])].estoque
           /\ preview[k].apos = preview[k].antes - edited[k].quantidade_corrigida
           /\ RowsOn(TargetOf(edited[k])) = {k} =>
                SumQty(movements, variants[TargetOf(edited[k])].id) = preview[k].apos

====
